---- MODULE Spec2Model ----
(***************************************************************************)
(* Model of the synchronisation pipeline of az-cn-go-wammcp: the GitHub    *)
(* client (cache, rate limiter), repository discovery, the full and the    *)
(* incremental sync pass and the archive ingestion of one repository.      *)
(*                                                                         *)
(* Strings are TLA+ strings; Len, SubSeq and \o act on them character by   *)
(* character, so prefixes, suffixes and path splitting are computed as     *)
(* the Go code computes them.  Time is counted in minutes.                 *)
(***************************************************************************)
EXTENDS Integers, Sequences, FiniteSets, TLC

VARIABLES
    remote,     \* what GitHub answers: the repository listing and, per repository, its archive
    db,         \* the store behind Syncer.db: modules, files, variables, outputs, resources, data sources
    cache,      \* GitHubClient.cache: url -> CacheEntry
    rateLimit,  \* GitHubClient.rateLimit: tokens, maxTokens, refillAt
    now,        \* time.Now(), in minutes
    pass,       \* the running SyncAll / SyncUpdates call: its position, its repos and its progress
    hist,       \* what the previous completed pass left behind (history, not program state)
    call        \* a call observed on its own, below a pass: its arguments, its position, its result

vars == <<remote, db, cache, rateLimit, now, pass, hist, call>>

----------------------------------------------------------------------------
(* Bounds of the model *)

MaxTime == 10           \* the clock stops advancing here
MaxPasses == 2          \* sync passes started in one behaviour
MaxRemoteChanges == 2   \* changes of the remote state in one behaviour
MaxTokens == 13         \* capacity of the rate limiter (60 or 5000 in NewSyncer)

TickMinutes == 5        \* granularity of the clock

----------------------------------------------------------------------------
(* strings *)

\* F(e), with e evaluated once however often F uses its argument
Apply(F(_), e) == CHOOSE y \in {F(x) : x \in {e}} : TRUE

\* strings.HasPrefix
HasPrefix(s, prefix) ==
    /\ Len(s) >= Len(prefix)
    /\ SubSeq(s, 1, Len(prefix)) = prefix

\* strings.HasSuffix
HasSuffix(s, suffix) ==
    /\ Len(s) >= Len(suffix)
    /\ SubSeq(s, Len(s) - Len(suffix) + 1, Len(s)) = suffix

\* position of the first sep (one character) in s at or after i, 0 if none
IndexFrom(s, sep, i) ==
    LET At(hits) == IF hits = {} THEN 0 ELSE CHOOSE k \in hits : \A j \in hits : k <= j
    IN At({k \in i..Len(s) : SubSeq(s, k, k) = sep})

\* strings.Split(s, sep) for a one-character separator
RECURSIVE Split(_, _)
Split(s, sep) ==
    LET At(str, i) == IF i = 0 THEN <<str>>
                      ELSE <<SubSeq(str, 1, i - 1)>> \o Split(SubSeq(str, i + 1, Len(str)), sep)
        In(str) == Apply(LAMBDA i : At(str, i), IndexFrom(str, sep, 1))
    IN Apply(In, s)

\* strings.SplitN(s, sep, 2)
SplitN2(s, sep) ==
    LET At(i) == IF i = 0 THEN <<s>>
                 ELSE <<SubSeq(s, 1, i - 1), SubSeq(s, i + 1, Len(s))>>
    IN At(IndexFrom(s, sep, 1))

\* path.Base for the cleaned, slash-separated paths of an archive
PathBase(p) ==
    LET parts == Split(p, "/") IN
    IF p = "" THEN "." ELSE parts[Len(parts)]

\* the elements of a sequence
Range(seq) == {seq[i] : i \in 1..Len(seq)}

\* strings.Contains
Contains(s, substr) ==
    \/ substr = ""
    \/ \E i \in 1..(Len(s) - Len(substr) + 1) : SubSeq(s, i, i + Len(substr) - 1) = substr

UpperLetters == "ABCDEFGHIJKLMNOPQRSTUVWXYZ"
LowerLetters == "abcdefghijklmnopqrstuvwxyz"

\* unicode.ToLower of one character
LowerChar(c) ==
    LET At(i) == IF i = 0 THEN c ELSE SubSeq(LowerLetters, i, i) IN At(IndexFrom(UpperLetters, c, 1))

\* strings.ToLower
RECURSIVE ToLower(_)
ToLower(s) ==
    IF s = "" THEN ""
    ELSE IF Len(s) = 1 THEN LowerChar(s)
    ELSE ToLower(SubSeq(s, 1, Len(s) \div 2)) \o ToLower(SubSeq(s, Len(s) \div 2 + 1, Len(s)))

\* strings.ReplaceAll(s, old, new) for a one-character old
RECURSIVE ReplaceAll(_, _, _)
ReplaceAll(s, old, new) ==
    IF s = "" THEN ""
    ELSE IF Len(s) = 1 THEN (IF s = old THEN new ELSE s)
    ELSE ReplaceAll(SubSeq(s, 1, Len(s) \div 2), old, new)
            \o ReplaceAll(SubSeq(s, Len(s) \div 2 + 1, Len(s)), old, new)

\* unicode.IsSpace, for the characters the inputs have
WhiteSpace == {" ", "\t", "\n", "\r"}

\* strings.TrimSpace
RECURSIVE TrimSpace(_)
TrimSpace(s) ==
    IF s = "" THEN ""
    ELSE IF SubSeq(s, 1, 1) \in WhiteSpace THEN TrimSpace(SubSeq(s, 2, Len(s)))
    ELSE IF SubSeq(s, Len(s), Len(s)) \in WhiteSpace THEN TrimSpace(SubSeq(s, 1, Len(s) - 1))
    ELSE s

\* strings.FieldsFunc(s, f) where f holds of the characters of seps: the maximal runs of
\* other characters, from position i on, cur being the run read so far
RECURSIVE FieldsFrom(_, _, _, _)
FieldsFrom(s, seps, i, cur) ==
    IF i > Len(s) THEN (IF cur = "" THEN <<>> ELSE <<cur>>)
    ELSE IF SubSeq(s, i, i) \in seps
         THEN (IF cur = "" THEN <<>> ELSE <<cur>>) \o FieldsFrom(s, seps, i + 1, "")
         ELSE FieldsFrom(s, seps, i + 1, cur \o SubSeq(s, i, i))

FieldsFunc(s, seps) == FieldsFrom(s, seps, 1, "")

\* strings.TrimLeft(s, cutset), cutset given as the set of its characters
RECURSIVE TrimLeft(_, _)
TrimLeft(s, cutset) ==
    IF s # "" /\ SubSeq(s, 1, 1) \in cutset THEN TrimLeft(SubSeq(s, 2, Len(s)), cutset) ELSE s

\* strings.TrimRight(s, cutset)
RECURSIVE TrimRight(_, _)
TrimRight(s, cutset) ==
    IF s # "" /\ SubSeq(s, Len(s), Len(s)) \in cutset
    THEN TrimRight(SubSeq(s, 1, Len(s) - 1), cutset) ELSE s

\* strings.Trim(s, cutset)
Trim(s, cutset) == TrimRight(TrimLeft(s, cutset), cutset)

\* strings.Join(elems, sep)
RECURSIVE Join(_, _)
Join(elems, sep) ==
    IF elems = <<>> THEN ""
    ELSE IF Len(elems) = 1 THEN elems[1]
    ELSE elems[1] \o sep \o Join(Tail(elems), sep)

DecimalDigits == "0123456789"

\* the decimal digits of a natural number
RECURSIVE Decimal(_)
Decimal(n) ==
    IF n < 10 THEN SubSeq(DecimalDigits, n + 1, n + 1)
    ELSE Decimal(n \div 10) \o SubSeq(DecimalDigits, (n % 10) + 1, (n % 10) + 1)

\* fmt.Sprintf("%04d", n) for n >= 0: the digits, padded with zeros to four characters
RECURSIVE PadZeros(_)
PadZeros(digits) == IF Len(digits) >= 4 THEN digits ELSE PadZeros("0" \o digits)

----------------------------------------------------------------------------
(* errors *)

NoError == [msg |-> "", wraps |-> ""]

\* var ErrRepoContentUnavailable = errors.New("repository content unavailable")
ErrRepoContentUnavailable == [msg |-> "repository content unavailable", wraps |-> "ErrRepoContentUnavailable"]

\* errors.New / fmt.Errorf without %w
NewError(msg) == [msg |-> msg, wraps |-> ""]

\* fmt.Errorf(prefix + ": %w", err)
WrapError(prefix, err) == [msg |-> prefix \o ": " \o err.msg, wraps |-> err.wraps]

\* errors.Is(err, ErrRepoContentUnavailable)
IsContentUnavailable(err) == err.wraps = "ErrRepoContentUnavailable"

\* net/http status codes the client tests for
StatusOK == 200
StatusForbidden == 403
StatusNotFound == 404
StatusConflict == 409

\* what the remote may answer to an archive request: the statuses above, a server error,
\* and 0 for a request that gets no response (httpClient.Do returns an error)
ArchiveStatuses == {200, 404, 403, 409, 500, 0}
ListStatuses == {200, 500, 0}

\* httpClient.Do returned an error instead of a response
TransportFailed(resp) == resp.status = 0

\* fmt's %d of a status
StatusText(status) ==
    CASE status = 200 -> "200"
      [] status = 403 -> "403"
      [] status = 404 -> "404"
      [] status = 409 -> "409"
      [] status = 500 -> "500"
      [] OTHER -> "0"

----------------------------------------------------------------------------
(* the remote host *)

Org == "cn"

Repo(name, updatedAt, private, archived, size) ==
    [Name |-> name, FullName |-> Org \o "/" \o name, UpdatedAt |-> updatedAt,
     Private |-> private, Archived |-> archived, Size |-> size]

\* the content of a file: whether it parses as HCL and its top-level blocks
Content(parses, blocks) == [parses |-> parses, blocks |-> blocks]

\* hclsyntax.Block: its type, its labels and the attributes of its body, each attribute
\* name with the source text of its expression
BlockWith(type, labels, attributes) == [Type |-> type, Labels |-> labels, Attributes |-> attributes]
Block(type, labels) == BlockWith(type, labels, <<>>)
NoBlocks == Content(TRUE, <<>>)

\* tar type flags
TypeReg == "0"
TypeSymlink == "2"
TypeDir == "5"
TypeXGlobalHeader == "g"

Entry(typeflag, name, content) == [Typeflag |-> typeflag, Name |-> name, Content |-> content]

\* the archives the remote serves
VnetArchive1 == <<
    Entry(TypeXGlobalHeader, "pax_global_header", NoBlocks),
    Entry(TypeDir, "cn-vnet-1/", NoBlocks),
    Entry(TypeReg, "cn-vnet-1/main.tf",
          Content(TRUE, <<Block("variable", <<"name">>),
                          Block("resource", <<"azurerm_virtual_network", "this">>)>>)),
    Entry(TypeReg, "cn-vnet-1/.github/workflows/ci.yml", NoBlocks),
    Entry(TypeReg, "cn-vnet-1/modules/subnet/main.tf",
          Content(TRUE, <<BlockWith("variable", <<"cidr">>, "default" :> "null"),
                          Block("output", <<"id">>)>>)),
    Entry(TypeReg, "cn-vnet-1/examples/basic/main.tf",
          Content(TRUE, <<Block("data", <<"azurerm_client_config", "current">>)>>)) >>

VnetArchive2 == <<
    Entry(TypeReg, "cn-vnet-2/main.tf",
          Content(TRUE, <<Block("variable", <<"vnet">>),
                          Block("resource", <<"azurerm_virtual_network", "this">>)>>)),
    Entry(TypeReg, "cn-vnet-2/modules/peering/main.tf",
          Content(TRUE, <<Block("variable", <<"remote">>)>>)),
    Entry(TypeReg, "cn-vnet-2/modules/peering/outputs.tf",
          Content(TRUE, <<Block("output", <<"peering">>)>>)),
    Entry(TypeReg, "cn-vnet-2/modules/README.md", NoBlocks),
    Entry(TypeSymlink, "cn-vnet-2/docs", NoBlocks) >>

KvArchive == <<
    Entry(TypeReg, "cn-kv-1/main.tf",
          Content(TRUE, <<BlockWith("variable", <<"name">>, "default" :> "\"kv\""),
                          Block("output", <<"id">>)>>)),
    Entry(TypeReg, "cn-kv-1/broken.tf", Content(FALSE, <<>>)),
    Entry(TypeReg, "cn-kv-1/node_modules/x/index.json", NoBlocks),
    Entry(TypeReg, "cn-kv-1/modules/cache/.terraform/modules.json", NoBlocks),
    Entry(TypeReg, "LICENSE", NoBlocks) >>

VnetName == "terraform-azure-vnet"
KvName == "terraform-azure-kv"
OldName == "terraform-azure-old"
DocsName == "azure-docs"

\* the tree of a repository at a version of its default branch
Tarball(name, version) ==
    IF name = VnetName THEN (IF version = 1 THEN VnetArchive1 ELSE VnetArchive2)
    ELSE IF name = KvName THEN KvArchive
    ELSE <<>>

\* the README of a repository at a version of its default branch
ReadmeText(name, version) == "# " \o name \o (IF version = 1 THEN "" ELSE " (second edition)")

\* the urls of fetchRepositories, fetchReadme, fetchFileContent and syncRepositoryFromArchive
ListURL == "https://api.github.com/orgs/" \o Org \o "/repos?per_page=100"
ListURL2 == ListURL \o "&page=2"
ReadmeURL(fullName) == "https://api.github.com/repos/" \o fullName \o "/readme"
DownloadURL(fullName) == "https://raw.githubusercontent.com/" \o fullName \o "/README.md"
ArchiveURL(fullName) == "https://api.github.com/repos/" \o fullName \o "/tarball"

\* the answer of the remote to a GET: status, body and the Link header
Response(status, body, link) == [status |-> status, body |-> body, link |-> link]

\* one link of a Link header
Link(url, rel) == [url |-> url, rel |-> rel]

\* the Link header the remote writes for a list of links:
\*   <url>; rel="next", <url>; rel="last"
RECURSIVE LinkHeader(_)
LinkHeader(links) ==
    IF links = <<>> THEN ""
    ELSE "<" \o links[1].url \o ">; rel=\"" \o links[1].rel \o "\""
         \o (IF Len(links) = 1 THEN "" ELSE ", " \o LinkHeader(Tail(links)))

\* the links of the two listing pages of an organisation with two pages of repositories
Links1 == <<Link(ListURL2, "next"), Link(ListURL2, "last")>>
Links2 == <<Link(ListURL, "prev"), Link(ListURL, "first")>>

AllRemoteRepos(rem) == rem.page1 \o rem.page2

Respond(rem, url) ==
    IF url = ListURL THEN
        Response(rem.listStatus, rem.page1,
                 IF rem.listStatus = StatusOK THEN LinkHeader(rem.links1) ELSE "")
    ELSE IF url = ListURL2 THEN
        Response(rem.listStatus, rem.page2,
                 IF rem.listStatus = StatusOK THEN LinkHeader(rem.links2) ELSE "")
    ELSE IF \E r \in Range(AllRemoteRepos(rem)) : url = ArchiveURL(r.FullName) THEN
        LET r == CHOOSE r \in Range(AllRemoteRepos(rem)) : url = ArchiveURL(r.FullName) IN
        Response(rem.archive[r.Name].status, Tarball(r.Name, rem.archive[r.Name].version), "")
    ELSE IF \E r \in Range(AllRemoteRepos(rem)) : url = ReadmeURL(r.FullName) THEN
        LET r == CHOOSE r \in Range(AllRemoteRepos(rem)) : url = ReadmeURL(r.FullName) IN
        Response(rem.contentStatus, [DownloadURL |-> DownloadURL(r.FullName), Content |-> ""], "")
    ELSE IF \E r \in Range(AllRemoteRepos(rem)) : url = DownloadURL(r.FullName) THEN
        LET r == CHOOSE r \in Range(AllRemoteRepos(rem)) : url = DownloadURL(r.FullName) IN
        Response(rem.contentStatus, ReadmeText(r.Name, rem.archive[r.Name].version), "")
    ELSE Response(StatusNotFound, "", "")

----------------------------------------------------------------------------
(* GitHubClient: rate limiter and cache.  A client value is the pair of    *)
(* the fields the calls change: [cache, rateLimit].                        *)

CacheTTL == 10          \* ExpiresAt: time.Now().Add(10 * time.Minute)
RefillPeriod == 60      \* refillAt: time.Now().Add(time.Hour)

Client(c, rl) == [cache |-> c, rateLimit |-> rl]

\* a limiter that is never refilled
acquireNeverRefills(rl, t) ==
    IF rl.tokens > 0
    THEN [ok |-> TRUE, rl |-> [rl EXCEPT !.tokens = @ - 1]]
    ELSE [ok |-> FALSE, rl |-> rl]

\* a limiter that grants an acquisition whether or not a token is left
acquireUnlimited(rl, t) ==
    [ok |-> TRUE, rl |-> [rl EXCEPT !.tokens = IF @ > 0 THEN @ - 1 ELSE @]]

\* RateLimiter.acquire at time t: the answer and the limiter afterwards
acquire(rl, t) ==
    LET refilled == IF t > rl.refillAt
                    THEN [rl EXCEPT !.tokens = rl.maxTokens, !.refillAt = t + RefillPeriod]
                    ELSE rl
    IN IF refilled.tokens > 0
       THEN [ok |-> TRUE, rl |-> [refilled EXCEPT !.tokens = @ - 1]]
       ELSE [ok |-> FALSE, rl |-> refilled]

AnonymousCapacity == 60         \* RateLimiter{tokens: 60, maxTokens: 60}
CredentialCapacity == 5000      \* with a token: maxTokens = 5000, tokens = 5000

\* NewSyncer at time t: the limiter of the client it builds
NewRateLimiter(token, t) ==
    LET WithToken(rl) ==
            IF token # ""
            THEN [rl EXCEPT !.maxTokens = CredentialCapacity, !.tokens = CredentialCapacity]
            ELSE rl
    IN WithToken([tokens |-> AnonymousCapacity, maxTokens |-> AnonymousCapacity,
                  refillAt |-> t + RefillPeriod])

\* a refill that adds one token
RefilledByOne(rl, t) ==
    IF t > rl.refillAt
    THEN [rl EXCEPT !.tokens = IF @ < rl.maxTokens THEN @ + 1 ELSE @, !.refillAt = t + RefillPeriod]
    ELSE rl

\* acquire, its first statement: if time.Now().After(rl.refillAt) { ... }
Refilled(rl, t) ==
    IF t > rl.refillAt
    THEN [rl EXCEPT !.tokens = rl.maxTokens, !.refillAt = t + RefillPeriod]
    ELSE rl

\* a clearCache that leaves the entries in place
clearCacheKept(c) == c

\* GitHubClient.clearCache

clearCache(c) == <<>>

CacheEntry(data, t) == [Data |-> data, ExpiresAt |-> t + CacheTTL]
Bytes(data) == [kind |-> "bytes", data |-> data, nextURL |-> ""]
PaginatedResponse(data, nextURL) == [kind |-> "paginated", data |-> data, nextURL |-> nextURL]

\* a cache whose entries never expire
CacheHitIgnoringExpiry(c, url, t, kind) ==
    /\ url \in DOMAIN c
    /\ c[url].Data.kind = kind

\* exists && time.Now().Before(entry.ExpiresAt), and the type assertion on entry.Data
CacheHit(c, url, t, kind) ==
    /\ url \in DOMAIN c
    /\ t < c[url].ExpiresAt
    /\ c[url].Data.kind = kind

CachePut(c, url, entry) == [u \in (DOMAIN c) \cup {url} |-> IF u = url THEN entry ELSE c[u]]

\* the request part shared by get, getArchive and doRequest: acquire, Do, transport error
\* result: the limiter afterwards, the response, the error, and whether httpClient.Do was called
Request(rem, rl, url, t) ==
    LET Do(a, resp) ==
            IF ~a.ok THEN [rl |-> a.rl, resp |-> Response(0, "", ""), sent |-> FALSE,
                           err |-> NewError("rate limit exceeded")]
            ELSE IF TransportFailed(resp)
                 THEN [rl |-> a.rl, resp |-> resp, sent |-> TRUE, err |-> NewError("connection refused")]
                 ELSE [rl |-> a.rl, resp |-> resp, sent |-> TRUE, err |-> NoError]
    IN Do(acquire(rl, t), Respond(rem, url))

\* the rel of one part of a Link header: the value of its last rel= section
RECURSIVE relOf(_, _, _)
relOf(sections, i, rel) ==
    IF i > Len(sections) THEN rel
    ELSE LET CutPrefix(sec) ==
                 IF HasPrefix(sec, "rel=")
                 THEN Trim(SubSeq(sec, 5, Len(sec)), {"\""}) ELSE rel
             After(sec) == Apply(LAMBDA r : relOf(sections, i + 1, r), CutPrefix(sec))
         IN Apply(After, TrimSpace(sections[i]))

\* the loop of parseNextLink over the parts of the header, with the test of rel left out:
\* the url of the first part that has a parameter
RECURSIVE nextInAnyRel(_, _)
nextInAnyRel(parts, i) ==
    IF i > Len(parts) THEN ""
    ELSE LET Of(sections) ==
                 IF Len(sections) < 2 THEN nextInAnyRel(parts, i + 1)
                 ELSE Trim(sections[1], {" ", "<", ">"})
         IN Apply(Of, Split(TrimSpace(parts[i]), ";"))

\* the loop of parseNextLink over the parts of the header
RECURSIVE nextIn(_, _)
nextIn(parts, i) ==
    IF i > Len(parts) THEN ""
    ELSE LET Of(sections) ==
                 IF Len(sections) < 2 THEN nextIn(parts, i + 1)
                 ELSE IF relOf(sections, 2, "") = "next" THEN Trim(sections[1], {" ", "<", ">"})
                 ELSE nextIn(parts, i + 1)
         IN Apply(Of, Split(TrimSpace(parts[i]), ";"))

\* parseNextLink
parseNextLink(linkHeader) ==
    LET Parts(header) == IF header = "" THEN ""
                         ELSE Apply(LAMBDA parts : nextIn(parts, 1), Split(header, ","))
    IN Apply(Parts, linkHeader)

\* GitHubClient.doRequest
doRequest(rem, cl, url, t) ==
    LET Answered(rq, cl2) ==
            IF rq.err # NoError
            THEN [cl |-> cl2, data |-> "", link |-> "", sent |-> rq.sent, err |-> rq.err]
            ELSE IF rq.resp.status # StatusOK
                 THEN [cl |-> cl2, data |-> "", link |-> "", sent |-> rq.sent,
                       err |-> NewError("GitHub API error: " \o StatusText(rq.resp.status))]
                 ELSE [cl |-> cl2, data |-> rq.resp.body, link |-> rq.resp.link, sent |-> rq.sent,
                       err |-> NoError]
        Requested(rq) == Answered(rq, Client(cl.cache, rq.rl))
    IN Requested(Request(rem, cl.rateLimit, url, t))

\* GitHubClient.getWithPagination
getWithPagination(rem, cl, url, t) ==
    IF CacheHit(cl.cache, url, t, "paginated")
    THEN [cl |-> cl, data |-> cl.cache[url].Data.data, next |-> cl.cache[url].Data.nextURL,
          err |-> NoError, cached |-> TRUE, sent |-> FALSE]
    ELSE LET Parsed(r, nextURL) ==
                 [cl |-> Client(CachePut(r.cl.cache, url,
                                         CacheEntry(PaginatedResponse(r.data, nextURL), t)),
                                r.cl.rateLimit),
                  data |-> r.data, next |-> nextURL, err |-> NoError, cached |-> FALSE,
                  sent |-> r.sent]
             Fetched(r) ==
                 IF r.err # NoError
                 THEN [cl |-> r.cl, data |-> "", next |-> "", err |-> r.err, cached |-> FALSE,
                       sent |-> r.sent]
                 ELSE Parsed(r, parseNextLink(r.link))
         IN Fetched(doRequest(rem, cl, url, t))

\* a get that writes the cache entry before it has looked at the status
getCachingFirst(rem, cl, url, t) ==
    IF CacheHit(cl.cache, url, t, "bytes")
    THEN [cl |-> cl, data |-> cl.cache[url].Data.data, err |-> NoError, sent |-> FALSE]
    ELSE LET Answered(rq, cl2) ==
                 IF rq.err # NoError THEN [cl |-> cl2, data |-> "", err |-> rq.err, sent |-> rq.sent]
                 ELSE IF rq.resp.status # StatusOK
                      THEN [cl |-> cl2, data |-> "", sent |-> rq.sent,
                            err |-> NewError("GitHub API error: " \o StatusText(rq.resp.status))]
                      ELSE [cl |-> cl2, data |-> rq.resp.body, err |-> NoError, sent |-> rq.sent]
             Requested(rq) ==
                 Answered(rq, Client(IF rq.sent
                                     THEN CachePut(cl.cache, url, CacheEntry(Bytes(rq.resp.body), t))
                                     ELSE cl.cache,
                                     rq.rl))
         IN Requested(Request(rem, cl.rateLimit, url, t))

\* GitHubClient.get
get(rem, cl, url, t) ==
    IF CacheHit(cl.cache, url, t, "bytes")
    THEN [cl |-> cl, data |-> cl.cache[url].Data.data, err |-> NoError, sent |-> FALSE]
    ELSE LET Answered(rq, cl2) ==
                 IF rq.err # NoError THEN [cl |-> cl2, data |-> "", err |-> rq.err, sent |-> rq.sent]
                 ELSE IF rq.resp.status # StatusOK
                      THEN [cl |-> cl2, data |-> "", sent |-> rq.sent,
                            err |-> NewError("GitHub API error: " \o StatusText(rq.resp.status))]
                      ELSE [cl |-> Client(CachePut(cl.cache, url, CacheEntry(Bytes(rq.resp.body), t)),
                                          rq.rl),
                            data |-> rq.resp.body, err |-> NoError, sent |-> rq.sent]
             Requested(rq) == Answered(rq, Client(cl.cache, rq.rl))
         IN Requested(Request(rem, cl.rateLimit, url, t))

\* a classification that knows 404 only
UnavailableStatusesNarrow == {StatusNotFound}

\* a classification that takes every failure for "unavailable"
UnavailableStatusesWide == {StatusNotFound, StatusForbidden, StatusConflict, 500}

\* the statuses getArchive classifies as "repository content unavailable"
UnavailableStatuses == {StatusNotFound, StatusForbidden, StatusConflict}

\* GitHubClient.getArchive
getArchive(rem, cl, url, t) ==
    LET Answered(rq, cl2) ==
            IF rq.err # NoError THEN [cl |-> cl2, data |-> <<>>, err |-> rq.err, sent |-> rq.sent]
            ELSE IF rq.resp.status \in UnavailableStatuses
                 THEN [cl |-> cl2, data |-> <<>>, sent |-> rq.sent,
                       err |-> [msg |-> ErrRepoContentUnavailable.msg \o ": status "
                                            \o StatusText(rq.resp.status),
                                wraps |-> ErrRepoContentUnavailable.wraps]]
            ELSE IF rq.resp.status # StatusOK
                 THEN [cl |-> cl2, data |-> <<>>, sent |-> rq.sent,
                       err |-> NewError("GitHub API error: " \o StatusText(rq.resp.status))]
            ELSE [cl |-> cl2, data |-> rq.resp.body, err |-> NoError, sent |-> rq.sent]
        Requested(rq) == Answered(rq, Client(cl.cache, rq.rl))
    IN Requested(Request(rem, cl.rateLimit, url, t))

----------------------------------------------------------------------------
(* The store (internal/database).  A module's identifier is its name: the  *)
(* name is the unique key of a Module row, so the two determine each other.*)

EmptyDB == [modules |-> {}, files |-> <<>>, variables |-> <<>>, outputs |-> <<>>,
            resources |-> <<>>, dataSources |-> <<>>]

NoModule == [ID |-> "", Name |-> "", FullName |-> "", LastUpdated |-> "",
             ReadmeContent |-> "", HasExamples |-> FALSE]

\* database.Module as syncRepository and ensureSubmoduleModule fill it
Module(name, fullName, lastUpdated) ==
    [ID |-> "", Name |-> name, FullName |-> fullName, LastUpdated |-> lastUpdated,
     ReadmeContent |-> "", HasExamples |-> FALSE]

\* an upsert that leaves the has-examples flag of an existing row set
InsertModuleKeepingFlag(d, m) ==
    LET Kept(old) == [m EXCEPT !.ID = m.Name, !.HasExamples = @ \/ old.HasExamples]
    IN [db |-> [d EXCEPT !.modules = {x \in @ : x.Name # m.Name}
                                       \cup {Kept(IF \E x \in d.modules : x.Name = m.Name
                                                  THEN CHOOSE x \in d.modules : x.Name = m.Name
                                                  ELSE m)}],
        id |-> m.Name]

\* upsert-module: insert or update by name, returns the identifier
InsertModule(d, m) ==
    [db |-> [d EXCEPT !.modules = {x \in @ : x.Name # m.Name} \cup {[m EXCEPT !.ID = m.Name]}],
     id |-> m.Name]

\* get-module-by-name
GetModule(d, name) ==
    IF \E x \in d.modules : x.Name = name
    THEN CHOOSE x \in d.modules : x.Name = name
    ELSE NoModule

\* get-module-by-id
GetModuleByID(d, id) ==
    IF \E x \in d.modules : x.ID = id
    THEN CHOOSE x \in d.modules : x.ID = id
    ELSE NoModule

\* the rows of a table that do not belong to one of the modules ids
WithoutModules(rows, ids) ==
    LET Keep(row) == row.ModuleID \notin ids IN SelectSeq(rows, Keep)

ClearChildren(d, ids) ==
    [d EXCEPT !.files = WithoutModules(@, ids), !.variables = WithoutModules(@, ids),
              !.outputs = WithoutModules(@, ids), !.resources = WithoutModules(@, ids),
              !.dataSources = WithoutModules(@, ids)]

\* clear-module-children(id)
ClearModuleData(d, id) == ClearChildren(d, {id})

\* delete-module(id): the row and the children it owns
DeleteModuleByID(d, id) ==
    [ClearChildren(d, {id}) EXCEPT !.modules = {x \in @ : x.ID # id}]

\* the submodules of a repository: the modules named <parent>//modules/...
DeleteChildModules(d, parentName) ==
    LET children == {x \in d.modules : HasPrefix(x.Name, parentName \o "//modules/")} IN
    [ClearChildren(d, {x.ID : x \in children}) EXCEPT !.modules = @ \ children]

\* insert-file: a file is keyed by its module and its relative path
InsertFile(d, file) ==
    LET Other(row) == ~(row.ModuleID = file.ModuleID /\ row.FilePath = file.FilePath) IN
    [d EXCEPT !.files = Append(SelectSeq(@, Other), file)]

\* list-files-for-module
GetModuleFiles(d, id) ==
    LET Mine(row) == row.ModuleID = id IN SelectSeq(d.files, Mine)

\* insert-variable, insert-output, insert-resource, insert-data-source, row after row
InsertRows(rows, new) == rows \o new

----------------------------------------------------------------------------
(* structural extraction *)

\* getFileType
getFileType(fileName) ==
    IF HasSuffix(fileName, ".tf") THEN "terraform"
    ELSE IF HasSuffix(fileName, ".md") THEN "markdown"
    ELSE IF HasSuffix(fileName, ".yml") \/ HasSuffix(fileName, ".yaml") THEN "yaml"
    ELSE IF HasSuffix(fileName, ".json") THEN "json"
    ELSE "other"

\* providerFromType: strings.SplitN(fullType, "_", 2)[0]
providerFromType(fullType) == SplitN2(fullType, "_")[1]

\* extractVariables, extractOutputs, extractResources, extractDataSources:
\* the rows of one file, in block order

\* the expression with this source text is a LiteralValueExpr of type cty.Bool: the parser
\* makes one of the keywords true and false, and of nothing else
IsLiteralBool(text) == text \in {"true", "false"}

\* strings.EqualFold, for ASCII text
EqualFold(s, t) == ToLower(s) = ToLower(t)

\* an attributeIsTrue without the comparison of the source text
attributeIsTrueLiteralOnly(text) == IsLiteralBool(text) /\ text = "true"

\* attributeIsTrue, for an attribute with this source text
attributeIsTrue(text) ==
    IF IsLiteralBool(text) THEN text = "true"
    ELSE EqualFold(TrimSpace(text), "true")

\* if attr, ok := block.Body.Attributes["sensitive"]; ok { Sensitive = attributeIsTrue(attr, content) }
Sensitive(block) ==
    "sensitive" \in DOMAIN block.Attributes /\ attributeIsTrue(block.Attributes["sensitive"])

\* an extractVariables that takes default = null for no default
extractVariablesNullAsAbsent(body, moduleID) ==
    LET Is(b) == b.Type = "variable" /\ Len(b.Labels) # 0
        bs == SelectSeq(body.blocks, Is)
    IN [i \in 1..Len(bs) |->
            [ModuleID |-> moduleID, Name |-> bs[i].Labels[1],
             Required |-> ~("default" \in DOMAIN bs[i].Attributes
                                /\ bs[i].Attributes["default"] # "null"),
             Sensitive |-> Sensitive(bs[i])]]

extractVariables(body, moduleID) ==
    LET Is(b) == b.Type = "variable" /\ Len(b.Labels) # 0
        bs == SelectSeq(body.blocks, Is)
    IN [i \in 1..Len(bs) |->
            [ModuleID |-> moduleID, Name |-> bs[i].Labels[1],
             Required |-> ~("default" \in DOMAIN bs[i].Attributes),
             Sensitive |-> Sensitive(bs[i])]]

extractOutputs(body, moduleID) ==
    LET Is(b) == b.Type = "output" /\ Len(b.Labels) # 0
        bs == SelectSeq(body.blocks, Is)
    IN [i \in 1..Len(bs) |->
            [ModuleID |-> moduleID, Name |-> bs[i].Labels[1], Sensitive |-> Sensitive(bs[i])]]

extractResources(body, fileName, moduleID) ==
    LET Is(b) == b.Type = "resource" /\ Len(b.Labels) >= 2
        bs == SelectSeq(body.blocks, Is)
    IN [i \in 1..Len(bs) |->
            [ModuleID |-> moduleID, ResourceType |-> bs[i].Labels[1], ResourceName |-> bs[i].Labels[2],
             Provider |-> providerFromType(bs[i].Labels[1]), SourceFile |-> fileName]]

extractDataSources(body, fileName, moduleID) ==
    LET Is(b) == b.Type = "data" /\ Len(b.Labels) >= 2
        bs == SelectSeq(body.blocks, Is)
    IN [i \in 1..Len(bs) |->
            [ModuleID |-> moduleID, DataType |-> bs[i].Labels[1], DataName |-> bs[i].Labels[2],
             Provider |-> providerFromType(bs[i].Labels[1]), SourceFile |-> fileName]]

\* the body of the loop of parseAndIndexTerraformFiles for one file
IndexFile(d, file, moduleID) ==
    IF file.FileType # "terraform" THEN d
    ELSE IF ~file.Content.parses THEN d
    ELSE [d EXCEPT !.variables = InsertRows(@, extractVariables(file.Content, moduleID)),
                   !.outputs = InsertRows(@, extractOutputs(file.Content, moduleID)),
                   !.resources = InsertRows(@, extractResources(file.Content, file.FileName, moduleID)),
                   !.dataSources = InsertRows(@, extractDataSources(file.Content, file.FileName, moduleID))]

\* a loop over the files that is left at the first file that does not parse
RECURSIVE IndexFilesUntilFailure(_, _, _)
IndexFilesUntilFailure(d, files, moduleID) ==
    IF files = <<>> THEN d
    ELSE IF Head(files).FileType = "terraform" /\ ~Head(files).Content.parses THEN d
    ELSE IndexFilesUntilFailure(IndexFile(d, Head(files), moduleID), Tail(files), moduleID)

RECURSIVE IndexFiles(_, _, _)
IndexFiles(d, files, moduleID) ==
    IF files = <<>> THEN d
    ELSE IndexFiles(IndexFile(d, Head(files), moduleID), Tail(files), moduleID)

\* Syncer.parseAndIndexTerraformFiles
parseAndIndexTerraformFiles(d, moduleID) == IndexFiles(d, GetModuleFiles(d, moduleID), moduleID)

RECURSIVE parseSubmodules(_, _)
parseSubmodules(d, ids) ==
    IF ids = <<>> THEN d
    ELSE parseSubmodules(parseAndIndexTerraformFiles(d, Head(ids)), Tail(ids))

----------------------------------------------------------------------------
(* Syncer: discovery and the sync of one repository.  The operators take   *)
(* the remote, the store, the client and the time and return what the Go   *)
(* function leaves behind together with what it returns.                   *)

ModulePrefix == "terraform-azure-"

\* a filter that forgets the archived flag
EligibleIgnoringArchived(repo) ==
    /\ HasPrefix(repo.Name, ModulePrefix)
    /\ ~repo.Private
    /\ ~(repo.Size <= 0)

\* the filter loop of fetchRepositories
Eligible(repo) ==
    /\ HasPrefix(repo.Name, ModulePrefix)
    /\ ~repo.Private
    /\ ~repo.Archived
    /\ ~(repo.Size <= 0)

FilterRepositories(allRepos) == SelectSeq(allRepos, Eligible)

\* the page loop of fetchRepositories: for url != "" { getWithPagination(url) ... }
\* fetchedAt is the earliest instant at which a page that was used left the remote
RECURSIVE FetchPages(_, _, _, _, _, _)
FetchPages(rem, cl, url, t, allRepos, fetchedAt) ==
    IF url = "" THEN [cl |-> cl, allRepos |-> allRepos, err |-> NoError, fetchedAt |-> fetchedAt]
    ELSE LET Page(r, at) ==
                 IF r.err # NoError
                 THEN [cl |-> r.cl, allRepos |-> <<>>, err |-> r.err, fetchedAt |-> fetchedAt]
                 ELSE FetchPages(rem, r.cl, r.next, t, allRepos \o r.data,
                                 IF at < fetchedAt THEN at ELSE fetchedAt)
             Got(r) == Page(r, IF r.cached THEN cl.cache[url].ExpiresAt - CacheTTL ELSE t)
         IN Got(getWithPagination(rem, cl, url, t))

\* Syncer.fetchRepositories
fetchRepositories(rem, cl, t) ==
    LET Filtered(pages) ==
            [cl |-> pages.cl, allRepos |-> pages.allRepos, fetchedAt |-> pages.fetchedAt,
             err |-> pages.err,
             repos |-> IF pages.err # NoError THEN <<>> ELSE FilterRepositories(pages.allRepos)]
    IN Filtered(FetchPages(rem, cl, ListURL, t, <<>>, t))

\* isRegularFile
isRegularFile(typeFlag) == typeFlag = TypeReg

\* normalizeArchivePath: the path without the top-level directory of the archive
normalizeArchivePath(name) ==
    LET parts == SplitN2(name, "/") IN
    IF Len(parts) < 2 THEN "" ELSE parts[2]

SkipDirs == {".git", ".github", "node_modules", ".terraform"}

\* a test of the first segment of the path only
shouldSkipPathAtTop(relativePath) == Split(relativePath, "/")[1] \in SkipDirs

\* shouldSkipPath
shouldSkipPath(relativePath) ==
    \E segment \in Range(Split(relativePath, "/")) : segment \in SkipDirs

SubmoduleName(repoName, subKey) == repoName \o "//modules/" \o subKey

\* Syncer.ensureSubmoduleModule
ensureSubmoduleModule(d, repo, subKey) ==
    LET Cleared(ins) == [db |-> ClearModuleData(ins.db, ins.id), id |-> ins.id]
    IN Cleared(InsertModule(d, Module(SubmoduleName(repo.Name, subKey), repo.FullName, repo.UpdatedAt)))

\* a sub key taken one segment too early: parts[0]
SubKeyOfFirst(relativePath) ==
    IF HasPrefix(relativePath, "modules/")
    THEN LET parts == Split(relativePath, "/") IN
         IF Len(parts) >= 2 THEN parts[1] ELSE ""
    ELSE ""

\* parts[1] of strings.Split(relativePath, "/") for a path under modules/
SubKeyOf(relativePath) ==
    IF HasPrefix(relativePath, "modules/")
    THEN LET parts == Split(relativePath, "/") IN
         IF Len(parts) >= 2 THEN parts[2] ELSE ""
    ELSE ""

TargetsSubmodule(relativePath) ==
    HasPrefix(relativePath, "modules/") /\ Len(Split(relativePath, "/")) >= 2

\* one turn of the loop of syncRepositoryFromArchive
\* acc: the store, examplesFound, submoduleIDs (sub key -> id) and submoduleOrder
IngestEntry(acc, header, moduleID, repo) ==
    LET \* InsertFile, and the examples/ test
        Put(d1, targetModuleID, relativePath, fileName, ids, order) ==
            [db |-> InsertFile(d1, [ModuleID |-> targetModuleID, FileName |-> fileName,
                                    FilePath |-> relativePath, FileType |-> getFileType(fileName),
                                    Content |-> header.Content]),
             examplesFound |-> acc.examplesFound \/ HasPrefix(relativePath, "examples/"),
             submoduleIDs |-> ids,
             submoduleOrder |-> order]
        \* a sub key seen for the first time: submoduleIDs[subKey] = childID, append, target
        First(ens, relativePath, fileName, subKey) ==
            Put(ens.db, ens.id, relativePath, fileName,
                [k \in (DOMAIN acc.submoduleIDs) \cup {subKey} |->
                    IF k = subKey THEN ens.id ELSE acc.submoduleIDs[k]],
                Append(acc.submoduleOrder, ens.id))
        \* targetModuleID: the root module, a known submodule or a new one
        Target(relativePath, fileName, subKey) ==
            IF ~TargetsSubmodule(relativePath)
            THEN Put(acc.db, moduleID, relativePath, fileName, acc.submoduleIDs, acc.submoduleOrder)
            ELSE IF subKey \in DOMAIN acc.submoduleIDs
            THEN Put(acc.db, acc.submoduleIDs[subKey], relativePath, fileName,
                     acc.submoduleIDs, acc.submoduleOrder)
            ELSE First(ensureSubmoduleModule(acc.db, repo, subKey), relativePath, fileName, subKey)
        Retained(relativePath) ==
            IF relativePath = "" THEN acc
            ELSE IF shouldSkipPath(relativePath) THEN acc
            ELSE Target(relativePath, PathBase(relativePath), SubKeyOf(relativePath))
    IN IF ~isRegularFile(header.Typeflag) THEN acc
       ELSE Retained(normalizeArchivePath(header.Name))

RECURSIVE IngestEntries(_, _, _, _)
IngestEntries(acc, entries, moduleID, repo) ==
    IF entries = <<>> THEN acc
    ELSE IngestEntries(IngestEntry(acc, Head(entries), moduleID, repo), Tail(entries), moduleID, repo)

\* Syncer.syncRepositoryFromArchive
syncRepositoryFromArchive(rem, d, cl, moduleID, repo, t) ==
    LET Read(a, acc) ==
            [db |-> acc.db, cl |-> a.cl, examplesFound |-> acc.examplesFound,
             submoduleOrder |-> acc.submoduleOrder, err |-> NoError]
        Got(a) ==
            IF a.err # NoError
            THEN [db |-> d, cl |-> a.cl, examplesFound |-> FALSE, submoduleOrder |-> <<>>,
                  err |-> IF IsContentUnavailable(a.err) THEN ErrRepoContentUnavailable ELSE a.err]
            ELSE Read(a, IngestEntries([db |-> d, examplesFound |-> FALSE, submoduleIDs |-> <<>>,
                                        submoduleOrder |-> <<>>], a.data, moduleID, repo))
    IN Got(getArchive(rem, cl, ArchiveURL(repo.FullName), t))

\* base64.StdEncoding.DecodeString on the inline payloads of this model
Base64Decode(text) == IF text = "IyByZWFkbWU=" THEN "# readme" ELSE ""

\* Syncer.fetchReadme with fetchFileContent
fetchReadme(rem, cl, repoFullName, t) ==
    LET \* fetchFileContent(file.DownloadURL)
        Downloaded(raw) ==
            IF raw.err # NoError THEN [cl |-> raw.cl, readme |-> "", err |-> raw.err]
            ELSE [cl |-> raw.cl, readme |-> raw.data, err |-> NoError]
        Described(meta) ==
            IF meta.err # NoError THEN [cl |-> meta.cl, readme |-> "", err |-> meta.err]
            ELSE IF meta.data.DownloadURL # ""
            THEN Downloaded(get(rem, meta.cl, meta.data.DownloadURL, t))
            ELSE IF meta.data.Content # ""
            THEN [cl |-> meta.cl, readme |-> Base64Decode(meta.data.Content), err |-> NoError]
            ELSE [cl |-> meta.cl, readme |-> "", err |-> NewError("no content available")]
    IN Described(get(rem, cl, ReadmeURL(repoFullName), t))

\* a syncRepository that keeps the children of the existing module
ClearExistingSkipped(d, moduleID) == d

\* syncRepository, after the upsert: the children of an existing module are cleared
ClearExisting(d, moduleID) ==
    LET existingModule == GetModuleByID(d, moduleID) IN
    IF existingModule # NoModule /\ existingModule.ID # ""
    THEN ClearModuleData(d, moduleID)
    ELSE d

\* a syncRepository that keeps the submodules of the earlier sync
DropChildModulesSkipped(d, repo) == d

\* syncRepository, before the archive: the submodules of the repository are deleted
DropChildModules(d, repo) == DeleteChildModules(d, repo.Name)

\* Syncer.syncRepository: the store and the client afterwards, and the error returned
syncRepository(rem, d, cl, repo, t) ==
    LET module == Module(repo.Name, repo.FullName, repo.UpdatedAt)
        \* if hasExamples { module.HasExamples = true; InsertModule(module) }
        Flagged(d4, module2, moduleID, hasExamples) ==
            IF hasExamples
            THEN InsertModule(d4, [module2 EXCEPT !.HasExamples = TRUE, !.ID = moduleID]).db
            ELSE d4
        \* what follows syncRepositoryFromArchive: unavailable, failed, or parsed
        AfterArchive(ar, module2, moduleID) ==
            IF ar.err # NoError
            THEN IF IsContentUnavailable(ar.err)
                 THEN [db |-> DeleteModuleByID(ar.db, moduleID), cl |-> ar.cl, err |-> NoError]
                 ELSE [db |-> ar.db, cl |-> ar.cl, err |-> WrapError("failed to sync files", ar.err)]
            ELSE [db |-> Flagged(parseSubmodules(parseAndIndexTerraformFiles(ar.db, moduleID),
                                                 ar.submoduleOrder),
                                 module2, moduleID, ar.examplesFound),
                  cl |-> ar.cl, err |-> NoError]
        \* DeleteChildModules, then the archive
        Updated(d2, clr, module2, moduleID) ==
            AfterArchive(syncRepositoryFromArchive(rem, DropChildModules(d2, repo), clr, moduleID, repo, t),
                         module2, moduleID)
        \* what follows fetchReadme: on success the module is updated with the README
        WithReadme(rd, d1, module2, moduleID) ==
            IF rd.err # NoError
            THEN Updated(d1, rd.cl, module, moduleID)
            ELSE Updated(InsertModule(d1, module2).db, rd.cl, module2, moduleID)
        Described(rd, d1, moduleID) ==
            WithReadme(rd, d1, [module EXCEPT !.ReadmeContent = rd.readme, !.ID = moduleID], moduleID)
        \* what follows the first InsertModule
        Inserted(ins) ==
            Described(fetchReadme(rem, cl, repo.FullName, t), ClearExisting(ins.db, ins.id), ins.id)
    IN Inserted(InsertModule(d, module))

----------------------------------------------------------------------------
(* The sync passes.  A pass is one call of SyncAll or SyncUpdates: it      *)
(* begins with discovery, takes one step per repository and returns.       *)

NoProgress == [TotalRepos |-> 0, ProcessedRepos |-> 0, SkippedRepos |-> 0, CurrentRepo |-> "",
               Errors |-> <<>>, UpdatedRepos |-> <<>>]

IdlePass == [pc |-> "idle", mode |-> "none", repos |-> <<>>, allRepos |-> <<>>, i |-> 1,
             progress |-> NoProgress, summary |-> FALSE, err |-> NoError,
             startedAt |-> 0, fetchedAt |-> 0, cancelled |-> FALSE]

\* no call is observed on its own
NoCall == [op |-> "none", n |-> 0, log |-> <<>>]

NoPrev == [mode |-> "none", db |-> EmptyDB, errors |-> 0]

Flags == { <<TRUE, FALSE, 12>>, <<FALSE, TRUE, 12>>, <<FALSE, FALSE, 0>> }

T1 == "2025-10-01T08:00:00Z"
T2 == "2025-11-01T08:00:00Z"

\* the remote at the start: four repositories on two listing pages, every endpoint up
InitialRemote(f) ==
    [page1 |-> <<Repo(VnetName, T1, FALSE, FALSE, 40), Repo(DocsName, T1, FALSE, FALSE, 7)>>,
     page2 |-> <<Repo(OldName, T1, f[1], f[2], f[3]), Repo(KvName, T1, FALSE, FALSE, 25)>>,
     links1 |-> Links1,
     links2 |-> Links2,
     listStatus |-> StatusOK,
     contentStatus |-> StatusOK,
     archive |-> [n \in {VnetName, DocsName, OldName, KvName} |->
                    IF n \in {VnetName, KvName}
                    THEN [status |-> StatusOK, version |-> 1]
                    ELSE [status |-> StatusNotFound, version |-> 1]]]

Init ==
    /\ \E f \in Flags : remote = InitialRemote(f)
    /\ db = EmptyDB
    /\ cache = <<>>
    /\ now = 0
    /\ rateLimit = [tokens |-> MaxTokens, maxTokens |-> MaxTokens, refillAt |-> RefillPeriod]
    /\ pass = IdlePass
    /\ hist = [passes |-> 0, changes |-> 0, changed |-> FALSE, prev |-> NoPrev]
    /\ call = NoCall

\* the first lines of SyncAll and SyncUpdates: discovery
Begin(mode, c) ==
    /\ pass.pc = "idle"
    /\ hist.passes < MaxPasses
    /\ \E f \in {fetchRepositories(remote, Client(c, rateLimit), now)} :
          /\ cache' = f.cl.cache
          /\ rateLimit' = f.cl.rateLimit
          /\ pass' = IF f.err # NoError
                     THEN [IdlePass EXCEPT !.pc = "done", !.mode = mode, !.startedAt = now,
                                           !.err = WrapError("failed to fetch repositories", f.err)]
                     ELSE [IdlePass EXCEPT !.pc = "loop", !.mode = mode, !.startedAt = now,
                                           !.repos = f.repos, !.allRepos = f.allRepos,
                                           !.fetchedAt = f.fetchedAt,
                                           !.progress.TotalRepos = Len(f.repos)]
    /\ hist' = [hist EXCEPT !.passes = @ + 1]
    /\ UNCHANGED <<remote, db, now, call>>

SyncAllBegin == Begin("all", cache)

SyncUpdatesBegin == Begin("updates", clearCache(cache))

ErrMsg(repo, err) == "Failed to sync " \o repo.Name \o ": " \o err.msg

\* a loop that leaves a failed repository out of ProcessedRepos
RecordAllUncounted(progress, repo, err) ==
    [progress EXCEPT !.CurrentRepo = repo.Name,
                     !.Errors = IF err # NoError THEN Append(@, ErrMsg(repo, err)) ELSE @,
                     !.ProcessedRepos = IF err # NoError THEN @ ELSE @ + 1]

\* SyncAll: what the loop records once syncRepository has returned err
RecordAll(progress, repo, err) ==
    [progress EXCEPT !.CurrentRepo = repo.Name,
                     !.Errors = IF err # NoError THEN Append(@, ErrMsg(repo, err)) ELSE @,
                     !.ProcessedRepos = @ + 1]

\* a loop that leaves a skipped repository out of ProcessedRepos
RecordSkippedUncounted(progress, repo) ==
    [progress EXCEPT !.CurrentRepo = repo.Name,
                     !.SkippedRepos = @ + 1]

\* SyncUpdates: what the loop records for a repository that is up to date
RecordSkipped(progress, repo) ==
    [progress EXCEPT !.CurrentRepo = repo.Name,
                     !.SkippedRepos = @ + 1,
                     !.ProcessedRepos = @ + 1]

\* a loop that reports a repository as updated whether or not its sync failed
RecordUpdateAlways(progress, repo, syncErr) ==
    [progress EXCEPT !.CurrentRepo = repo.Name,
                     !.Errors = IF syncErr # NoError THEN Append(@, ErrMsg(repo, syncErr)) ELSE @,
                     !.UpdatedRepos = Append(@, repo.Name),
                     !.ProcessedRepos = @ + 1]

\* SyncUpdates: what the loop records once syncRepository has returned syncErr
RecordUpdate(progress, repo, syncErr) ==
    [progress EXCEPT !.CurrentRepo = repo.Name,
                     !.Errors = IF syncErr # NoError THEN Append(@, ErrMsg(repo, syncErr)) ELSE @,
                     !.UpdatedRepos = IF syncErr # NoError THEN @ ELSE Append(@, repo.Name),
                     !.ProcessedRepos = @ + 1]

\* one turn of the loop of SyncAll
SyncAllRepo ==
    /\ pass.pc = "loop" /\ pass.mode = "all" /\ pass.i <= Len(pass.repos)
    /\ \E r \in {syncRepository(remote, db, Client(cache, rateLimit), pass.repos[pass.i], now)} :
          /\ db' = r.db
          /\ cache' = r.cl.cache
          /\ rateLimit' = r.cl.rateLimit
          /\ pass' = [pass EXCEPT !.i = @ + 1, !.progress = RecordAll(@, pass.repos[pass.i], r.err)]
    /\ UNCHANGED <<remote, now, hist, call>>

\* a test that skips the repositories whose marker has changed
UpToDateInverted(d, repo) ==
    LET existingModule == GetModule(d, repo.Name) IN
    existingModule # NoModule /\ existingModule.LastUpdated # repo.UpdatedAt

\* the test of SyncUpdates that skips a repository
UpToDate(d, repo) ==
    LET existingModule == GetModule(d, repo.Name) IN
    existingModule # NoModule /\ existingModule.LastUpdated = repo.UpdatedAt

\* one turn of the loop of SyncUpdates
SyncUpdatesRepo ==
    /\ pass.pc = "loop" /\ pass.mode = "updates" /\ pass.i <= Len(pass.repos)
    /\ IF UpToDate(db, pass.repos[pass.i])
       THEN /\ pass' = [pass EXCEPT !.i = @ + 1, !.progress = RecordSkipped(@, pass.repos[pass.i])]
            /\ UNCHANGED <<db, cache, rateLimit>>
       ELSE \E r \in {syncRepository(remote, db, Client(cache, rateLimit), pass.repos[pass.i], now)} :
               /\ db' = r.db
               /\ cache' = r.cl.cache
               /\ rateLimit' = r.cl.rateLimit
               /\ pass' = [pass EXCEPT !.i = @ + 1,
                                        !.progress = RecordUpdate(@, pass.repos[pass.i], r.err)]
    /\ UNCHANGED <<remote, now, hist, call>>

\* return progress, nil
PassReturn ==
    /\ pass.pc = "loop" /\ pass.i > Len(pass.repos)
    /\ pass' = [pass EXCEPT !.pc = "done", !.summary = TRUE]
    /\ UNCHANGED <<remote, db, cache, rateLimit, now, hist, call>>

\* the caller has the result; the syncer is idle again
PassDone ==
    /\ pass.pc = "done"
    /\ pass' = IdlePass
    /\ hist' = [hist EXCEPT !.changed = FALSE,
                             !.prev = [mode |-> IF pass.summary THEN pass.mode ELSE "failed",
                                       db |-> db, errors |-> Len(pass.progress.Errors)]]
    /\ UNCHANGED <<remote, db, cache, rateLimit, now, call>>

----------------------------------------------------------------------------
(* the environment: the clock and the remote host *)

Tick ==
    /\ now < MaxTime
    /\ now' = now + TickMinutes
    /\ UNCHANGED <<remote, db, cache, rateLimit, pass, hist, call>>

RemoteChange(rem) ==
    /\ pass.pc = "idle"
    /\ hist.changes < MaxRemoteChanges
    /\ rem # remote
    /\ remote' = rem
    /\ hist' = [hist EXCEPT !.changes = @ + 1, !.changed = TRUE]
    /\ UNCHANGED <<db, cache, rateLimit, now, pass, call>>

Pushed(repo) == [repo EXCEPT !.UpdatedAt = T2]

\* a push to a repository: a new marker and, for the vnet repository, a new tree
RemotePush ==
    \/ /\ remote.page1[1].UpdatedAt = T1
       /\ RemoteChange([remote EXCEPT !.page1[1] = Pushed(@),
                                      !.archive[VnetName].version = 2])
    \/ /\ remote.page2[2].UpdatedAt = T1
       /\ RemoteChange([remote EXCEPT !.page2[2] = Pushed(@)])

\* the archive endpoint of a repository starts to answer with another status
RemoteArchiveStatus ==
    \E n \in {VnetName, KvName}, st \in ArchiveStatuses :
        RemoteChange([remote EXCEPT !.archive[n].status = st])

\* the listing endpoint starts to answer with another status
RemoteListStatus ==
    \E st \in ListStatuses :
        RemoteChange([remote EXCEPT !.listStatus = st])

\* the caller asks the running pass to stop (notifications/cancelled); the loops of
\* SyncAll and SyncUpdates take no context and read no such request
Cancel ==
    /\ pass.pc = "loop"
    /\ ~pass.cancelled
    /\ pass' = [pass EXCEPT !.cancelled = TRUE]
    /\ UNCHANGED <<remote, db, cache, rateLimit, now, hist, call>>

Next ==
    \/ SyncAllBegin
    \/ SyncAllRepo
    \/ SyncUpdatesBegin
    \/ SyncUpdatesRepo
    \/ PassReturn
    \/ PassDone
    \/ Tick
    \/ RemotePush
    \/ RemoteArchiveStatus
    \/ RemoteListStatus
    \/ Cancel

Spec == Init /\ [][Next]_vars

----------------------------------------------------------------------------
(* The client on its own: calls of acquire, get, getWithPagination and     *)
(* getArchive, one after the other, against a remote that changes and a    *)
(* clock that passes the expiry of the cache entries and the refill        *)
(* deadline of the limiter.  call holds the last call and what it returned.*)

MaxCapacity == 2        \* capacity of the limiter of this client
MaxCalls == 3           \* calls in one behaviour
MaxClientChanges == 1   \* changes of the remote state in one behaviour of the client
MaxClientTime == 70     \* the clock stops here, past the first refill deadline

\* the urls get, getWithPagination and getArchive are called with
GetURLs == {ReadmeURL(Org \o "/" \o VnetName), DownloadURL(Org \o "/" \o VnetName),
            ArchiveURL(Org \o "/" \o VnetName)}
PageURLs == {ListURL, ListURL2}
ArchiveURLs == {ArchiveURL(Org \o "/" \o VnetName)}

ClientInit ==
    /\ remote = InitialRemote(<<FALSE, TRUE, 12>>)
    /\ db = EmptyDB
    /\ cache = <<>>
    /\ now = 0
    /\ \E capacity \in 1..MaxCapacity :
          rateLimit = [tokens |-> capacity, maxTokens |-> capacity, refillAt |-> RefillPeriod]
    /\ pass = IdlePass
    /\ hist = [passes |-> 0, changes |-> 0, changed |-> FALSE, prev |-> NoPrev]
    /\ call = NoCall

\* the record of a call that has returned r; log lists the calls so far: what, when, granted
Returned(op, url, r) ==
    [op |-> op, url |-> url, at |-> now, n |-> call.n + 1,
     data |-> r.data, err |-> r.err, sent |-> r.sent, ok |-> r.err = NoError,
     log |-> Append(call.log, <<op, now, r.err = NoError>>)]

CallAcquire ==
    /\ call.n < MaxCalls
    /\ \E a \in {acquire(rateLimit, now)} :
          /\ rateLimit' = a.rl
          /\ call' = [op |-> "acquire", url |-> "", at |-> now, n |-> call.n + 1,
                      data |-> "", err |-> NoError, sent |-> FALSE, ok |-> a.ok,
                      log |-> Append(call.log, <<"acquire", now, a.ok>>)]
    /\ UNCHANGED <<remote, db, cache, now, pass, hist>>

CallGet ==
    /\ call.n < MaxCalls
    /\ \E url \in GetURLs :
          \E r \in {get(remote, Client(cache, rateLimit), url, now)} :
             /\ cache' = r.cl.cache
             /\ rateLimit' = r.cl.rateLimit
             /\ call' = Returned("get", url, r)
    /\ UNCHANGED <<remote, db, now, pass, hist>>

CallGetWithPagination ==
    /\ call.n < MaxCalls
    /\ \E url \in PageURLs :
          \E r \in {getWithPagination(remote, Client(cache, rateLimit), url, now)} :
             /\ cache' = r.cl.cache
             /\ rateLimit' = r.cl.rateLimit
             /\ call' = Returned("getWithPagination", url, r)
    /\ UNCHANGED <<remote, db, now, pass, hist>>

CallGetArchive ==
    /\ call.n < MaxCalls
    /\ \E url \in ArchiveURLs :
          \E r \in {getArchive(remote, Client(cache, rateLimit), url, now)} :
             /\ cache' = r.cl.cache
             /\ rateLimit' = r.cl.rateLimit
             /\ call' = Returned("getArchive", url, r)
    /\ UNCHANGED <<remote, db, now, pass, hist>>

\* time passes: a few minutes, as long as the clock is below MaxTime, or an hour
ClientTick ==
    /\ \E d \in {TickMinutes, RefillPeriod} :
          /\ d = TickMinutes => now < MaxTime
          /\ now + d <= MaxClientTime
          /\ now' = now + d
    /\ UNCHANGED <<remote, db, cache, rateLimit, pass, hist, call>>

\* a change of the remote state between two calls
ClientRemoteChange(rem) ==
    /\ hist.changes < MaxClientChanges
    /\ RemoteChange(rem)

\* a push to the vnet repository: a new marker in the listing, a new tree and a new README
ClientRemotePush ==
    /\ remote.page1[1].UpdatedAt = T1
    /\ ClientRemoteChange([remote EXCEPT !.page1[1] = Pushed(@), !.archive[VnetName].version = 2])

\* the listing endpoint starts to answer with another status
ClientRemoteListStatus ==
    \E st \in ListStatuses :
        ClientRemoteChange([remote EXCEPT !.listStatus = st])

\* the README endpoints start to answer with another status
RemoteContentStatus ==
    \E st \in ListStatuses :
        ClientRemoteChange([remote EXCEPT !.contentStatus = st])

\* the archive endpoint of the vnet repository starts to answer with another status
RemoteVnetArchiveStatus ==
    \E st \in ArchiveStatuses :
        ClientRemoteChange([remote EXCEPT !.archive[VnetName].status = st])

ClientNext ==
    \/ CallAcquire
    \/ CallGet
    \/ CallGetWithPagination
    \/ CallGetArchive
    \/ ClientTick
    \/ ClientRemotePush
    \/ RemoteVnetArchiveStatus
    \/ ClientRemoteListStatus
    \/ RemoteContentStatus

ClientSpec == ClientInit /\ [][ClientNext]_vars

----------------------------------------------------------------------------
(* syncRepository on its own, statement by statement.  call holds the      *)
(* repository, the locals of syncRepository and of the loop of             *)
(* syncRepositoryFromArchive, and the position pc.                         *)

MaxRepoTokens == 3      \* tokens of the limiter when syncRepository is called

\* what an earlier sync of the first tree of the repository has left in the store
SyncedBefore(name) ==
    syncRepository(InitialRemote(<<FALSE, TRUE, 12>>), EmptyDB,
                   Client(<<>>, [tokens |-> 3, maxTokens |-> 3, refillAt |-> RefillPeriod]),
                   Repo(name, T1, FALSE, FALSE, 40), 0).db

RepoInit ==
    /\ \E st \in ArchiveStatuses, cs \in ListStatuses, version \in {1, 2} :
          remote = [InitialRemote(<<FALSE, TRUE, 12>>) EXCEPT
                        !.contentStatus = cs,
                        !.archive = [n \in DOMAIN @ |-> [status |-> st, version |-> version]]]
    /\ cache = <<>>
    /\ now = 0
    /\ \E tokens \in 0..MaxRepoTokens :
          rateLimit = [tokens |-> tokens, maxTokens |-> MaxTokens, refillAt |-> RefillPeriod]
    /\ pass = IdlePass
    /\ hist = [passes |-> 0, changes |-> 0, changed |-> FALSE, prev |-> NoPrev]
    /\ \E name \in {VnetName, KvName} :
          /\ db \in {EmptyDB, SyncedBefore(name)}
          /\ call = [op |-> "syncRepository", pc |-> "insert",
                     repo |-> Repo(name, T2, FALSE, FALSE, 40),
                     module |-> NoModule, moduleID |-> "",
                     entries |-> <<>>, k |-> 1,
                     examplesFound |-> FALSE, submoduleIDs |-> <<>>, submoduleOrder |-> <<>>,
                     j |-> 1, err |-> NoError,
                     start |-> [db |-> db, rateLimit |-> rateLimit]]

\* moduleID, err := s.db.InsertModule(module); the children of an existing module are cleared
RepoInsert ==
    /\ call.op = "syncRepository" /\ call.pc = "insert"
    /\ \E ins \in {InsertModule(db, Module(call.repo.Name, call.repo.FullName, call.repo.UpdatedAt))} :
          /\ db' = ClearExisting(ins.db, ins.id)
          /\ call' = [call EXCEPT !.pc = "readme", !.moduleID = ins.id,
                                  !.module = Module(call.repo.Name, call.repo.FullName,
                                                    call.repo.UpdatedAt)]
    /\ UNCHANGED <<remote, cache, rateLimit, now, pass, hist>>

\* readme, err := s.fetchReadme(repo.FullName); on success the module is updated
RepoReadme ==
    /\ call.op = "syncRepository" /\ call.pc = "readme"
    /\ \E rd \in {fetchReadme(remote, Client(cache, rateLimit), call.repo.FullName, now)} :
          /\ cache' = rd.cl.cache
          /\ rateLimit' = rd.cl.rateLimit
          /\ IF rd.err # NoError
             THEN /\ db' = db
                  /\ call' = [call EXCEPT !.pc = "children"]
             ELSE /\ db' = InsertModule(db, [call.module EXCEPT !.ReadmeContent = rd.readme,
                                                                !.ID = call.moduleID]).db
                  /\ call' = [call EXCEPT !.pc = "children",
                                          !.module = [@ EXCEPT !.ReadmeContent = rd.readme,
                                                               !.ID = call.moduleID]]
    /\ UNCHANGED <<remote, now, pass, hist>>

\* s.db.DeleteChildModules(repo.Name)
RepoDropChildren ==
    /\ call.op = "syncRepository" /\ call.pc = "children"
    /\ db' = DropChildModules(db, call.repo)
    /\ call' = [call EXCEPT !.pc = "archive"]
    /\ UNCHANGED <<remote, cache, rateLimit, now, pass, hist>>

\* data, err := s.githubClient.getArchive(archiveURL), and what syncRepository does with err
RepoArchive ==
    /\ call.op = "syncRepository" /\ call.pc = "archive"
    /\ \E a \in {getArchive(remote, Client(cache, rateLimit), ArchiveURL(call.repo.FullName), now)} :
          /\ cache' = a.cl.cache
          /\ rateLimit' = a.cl.rateLimit
          /\ IF a.err = NoError
             THEN /\ db' = db
                  /\ call' = [call EXCEPT !.pc = "entries", !.entries = a.data, !.k = 1]
             ELSE IF IsContentUnavailable(a.err)
             THEN /\ db' = DeleteModuleByID(db, call.moduleID)
                  /\ call' = [call EXCEPT !.pc = "returned", !.err = NoError]
             ELSE /\ db' = db
                  /\ call' = [call EXCEPT !.pc = "returned",
                                          !.err = WrapError("failed to sync files", a.err)]
    /\ UNCHANGED <<remote, now, pass, hist>>

\* one turn of the loop over the archive: header k
RepoEntry ==
    /\ call.op = "syncRepository" /\ call.pc = "entries"
    /\ call.k <= Len(call.entries)
    /\ \E acc \in {IngestEntry([db |-> db, examplesFound |-> call.examplesFound,
                                 submoduleIDs |-> call.submoduleIDs,
                                 submoduleOrder |-> call.submoduleOrder],
                                call.entries[call.k], call.moduleID, call.repo)} :
          /\ db' = acc.db
          /\ call' = [call EXCEPT !.k = @ + 1, !.examplesFound = acc.examplesFound,
                                  !.submoduleIDs = acc.submoduleIDs,
                                  !.submoduleOrder = acc.submoduleOrder]
    /\ UNCHANGED <<remote, cache, rateLimit, now, pass, hist>>

\* a loop over the archive that may be left before the last header
RepoEntriesDoneEarly ==
    /\ call.op = "syncRepository" /\ call.pc = "entries"
    /\ call' = [call EXCEPT !.pc = "parse"]
    /\ UNCHANGED <<remote, db, cache, rateLimit, now, pass, hist>>

\* tarReader.Next() returns io.EOF: the loop over the archive is left
RepoEntriesDone ==
    /\ call.op = "syncRepository" /\ call.pc = "entries"
    /\ call.k > Len(call.entries)
    /\ call' = [call EXCEPT !.pc = "parse"]
    /\ UNCHANGED <<remote, db, cache, rateLimit, now, pass, hist>>

\* s.parseAndIndexTerraformFiles(moduleID)
RepoParse ==
    /\ call.op = "syncRepository" /\ call.pc = "parse"
    /\ db' = parseAndIndexTerraformFiles(db, call.moduleID)
    /\ call' = [call EXCEPT !.pc = "parseSubmodules", !.j = 1]
    /\ UNCHANGED <<remote, cache, rateLimit, now, pass, hist>>

\* for _, childID := range submoduleIDs { s.parseAndIndexTerraformFiles(childID) }
RepoParseSubmodule ==
    /\ call.op = "syncRepository" /\ call.pc = "parseSubmodules"
    /\ call.j <= Len(call.submoduleOrder)
    /\ db' = parseAndIndexTerraformFiles(db, call.submoduleOrder[call.j])
    /\ call' = [call EXCEPT !.j = @ + 1]
    /\ UNCHANGED <<remote, cache, rateLimit, now, pass, hist>>

\* if hasExamples { ... s.db.InsertModule(module) }; return nil
RepoReturn ==
    /\ call.op = "syncRepository" /\ call.pc = "parseSubmodules"
    /\ call.j > Len(call.submoduleOrder)
    /\ db' = IF call.examplesFound
             THEN InsertModule(db, [call.module EXCEPT !.HasExamples = TRUE,
                                                       !.ID = call.moduleID]).db
             ELSE db
    /\ call' = [call EXCEPT !.pc = "returned", !.err = NoError]
    /\ UNCHANGED <<remote, cache, rateLimit, now, pass, hist>>

RepoNext ==
    \/ RepoInsert
    \/ RepoReadme
    \/ RepoDropChildren
    \/ RepoArchive
    \/ RepoEntry
    \/ RepoEntriesDone
    \/ RepoParse
    \/ RepoParseSubmodule
    \/ RepoReturn

RepoSpec == RepoInit /\ [][RepoNext]_vars

----------------------------------------------------------------------------
(* The release diff matcher (pkg/mcp/tools_releases.go) *)

\* uniqueStrings: the trimmed, non-empty values, each once, in order of first occurrence
RECURSIVE UniqueFrom(_, _, _)
UniqueFrom(values, i, out) ==
    IF i > Len(values) THEN out
    ELSE LET Keep(v) == IF v = "" \/ v \in Range(out) THEN out ELSE Append(out, v)
         IN UniqueFrom(values, i + 1, Keep(TrimSpace(values[i])))

uniqueStrings(values) == UniqueFrom(values, 1, <<>>)

\* tokenizeIdentifier
tokenizeIdentifier(value) ==
    LET NonEmpty(part) == TrimSpace(part) # ""
        Trimmed(parts) == [i \in 1..Len(parts) |-> TrimSpace(parts[i])]
    IN Trimmed(SelectSeq(FieldsFunc(ReplaceAll(ReplaceAll(value, "_", "-"), ".", "-"),
                                    {"-", " ", ":"}),
                         NonEmpty))

\* buildReleaseEntryTargets
buildReleaseEntryTargets(entry, query) ==
    LET FromIdentifier(id) == <<id>> \o tokenizeIdentifier(id)
        Tokens == (IF entry.Identifier.Valid
                   THEN FromIdentifier(ToLower(entry.Identifier.String)) ELSE <<>>)
                  \o (IF query # "" THEN tokenizeIdentifier(ToLower(query)) ELSE <<>>)
    IN [filenameTokens |-> uniqueStrings(Tokens),
        contentTokens |-> uniqueStrings(Tokens),
        fallbackContentToken |-> IF query # "" THEN ToLower(query)
                                 ELSE IF entry.Title # "" THEN ToLower(entry.Title)
                                 ELSE ""]

\* the number of non-empty tokens that occur in s
Matches(tokens, s) ==
    Cardinality({i \in 1..Len(tokens) : tokens[i] # "" /\ Contains(s, tokens[i])})

\* scorePatchCandidate
scorePatchCandidate(filename, patch, targets) ==
    LET Score(lowerPath, lowerPatch) ==
            (IF HasSuffix(lowerPath, ".tf") THEN 150 ELSE 0)
          + (IF Contains(lowerPath, "/modules/") THEN 20 ELSE 0)
          - (IF Contains(lowerPath, "/examples/") THEN 60 ELSE 0)
          - (IF HasSuffix(lowerPath, ".md") \/ Contains(lowerPath, "changelog") THEN 180 ELSE 0)
          - (IF Contains(lowerPath, "/test") THEN 40 ELSE 0)
          + 35 * Matches(targets.filenameTokens, lowerPath)
          + 20 * Matches(targets.contentTokens, lowerPatch)
          + (IF targets.fallbackContentToken # ""
                 /\ Contains(lowerPatch, targets.fallbackContentToken) THEN 10 ELSE 0)
          + Len(patch) \div 400
    IN Score(ToLower(ReplaceAll(filename, "\\", "/")), ToLower(patch))

\* bestScore := -1 << 30
NoScore == -(2^30)

\* a comparison that never takes a file whose score is not positive
ImprovesAboveZero(score, bestScore) == score > bestScore /\ score > 0

\* a comparison that takes the later of two files of equal score
ImprovesOrEquals(score, bestScore) == score >= bestScore

\* if score > bestScore
Improves(score, bestScore) == score > bestScore

\* the loop of locatePatchForEntry from file i on
RECURSIVE LocateFrom(_, _, _, _)
LocateFrom(files, targets, i, best) ==
    IF i > Len(files) THEN best
    ELSE IF files[i].Patch = "" THEN LocateFrom(files, targets, i + 1, best)
    ELSE LET Step(score) ==
                 IF Improves(score, best.score)
                 THEN [score |-> score, file |-> files[i].Filename, patch |-> files[i].Patch]
                 ELSE best
         IN LocateFrom(files, targets, i + 1,
                       Step(scorePatchCandidate(files[i].Filename, files[i].Patch, targets)))

\* locatePatchForEntry: the file name and the patch it returns
locatePatchForEntry(compare, entry, query) ==
    IF compare.isNil THEN [score |-> NoScore, file |-> "", patch |-> ""]
    ELSE LocateFrom(compare.Files, buildReleaseEntryTargets(entry, query), 1,
                    [score |-> NoScore, file |-> "", patch |-> ""])

\* the loop of safeSlug and slugifyToken: letters a-z and digits stay, the rest becomes -
RECURSIVE SlugChars(_)
SlugChars(s) ==
    IF s = "" THEN ""
    ELSE (IF IndexFrom(LowerLetters, SubSeq(s, 1, 1), 1) # 0
             \/ IndexFrom(DecimalDigits, SubSeq(s, 1, 1), 1) # 0
          THEN SubSeq(s, 1, 1) ELSE "-") \o SlugChars(SubSeq(s, 2, Len(s)))

\* safeSlug
safeSlug(s) ==
    LET Slug(lowered) == IF lowered = "" THEN "section" ELSE Trim(SlugChars(lowered), {"-"})
    IN Slug(ToLower(TrimSpace(s)))

\* slugifyToken
slugifyToken(value) ==
    LET Slug(lowered) == IF lowered = "" THEN "" ELSE Trim(SlugChars(lowered), {"-"})
    IN Slug(ToLower(TrimSpace(value)))

\* an ifEmpty that never falls back
ifEmptyNever(val, fallback) == val

\* ifEmpty
ifEmpty(val, fallback) == IF TrimSpace(val) = "" THEN fallback ELSE val

\* the entry parseReleaseEntriesFromBlock appends for a bullet
NewReleaseEntry(section, order, title) ==
    [Section |-> ifEmpty(section, "Other"),
     EntryKey |-> safeSlug(section) \o "-" \o PadZeros(Decimal(order)),
     Title |-> title,
     OrderIndex |-> order,
     Identifier |-> [String |-> slugifyToken(title), Valid |-> title # ""]]

\* the loop of parseReleaseEntriesFromBlock from line i on
RECURSIVE ParseLinesFrom(_, _, _, _, _)
ParseLinesFrom(lines, i, section, order, entries) ==
    IF i > Len(lines) THEN entries
    ELSE LET Bullet(title) ==
                 IF title = "" THEN ParseLinesFrom(lines, i + 1, section, order, entries)
                 ELSE ParseLinesFrom(lines, i + 1, section, order + 1,
                                     Append(entries, NewReleaseEntry(section, order, title)))
             Line(t) ==
                 IF HasPrefix(t, "## ") THEN ParseLinesFrom(lines, i + 1, section, order, entries)
                 ELSE IF HasPrefix(t, "### ")
                      THEN ParseLinesFrom(lines, i + 1, TrimSpace(SubSeq(t, 5, Len(t))),
                                          order, entries)
                 ELSE IF HasPrefix(t, "-") \/ HasPrefix(t, "*")
                      THEN Bullet(TrimSpace(TrimLeft(t, {"-", "*", " "})))
                 ELSE ParseLinesFrom(lines, i + 1, section, order, entries)
         IN Line(TrimSpace(lines[i]))

\* parseReleaseEntriesFromBlock
parseReleaseEntriesFromBlock(block) == ParseLinesFrom(Split(block, "\n"), 1, "", 0, <<>>)

----------------------------------------------------------------------------
(* The limiter under concurrent callers: acquire statement by statement,   *)
(* each caller at its own position, the mutex of the limiter between them.  *)

MaxCallers == 2         \* goroutines that call acquire
MaxLimiterTime == 70    \* the clock stops here, past the first refill deadline
LimiterStep == 35       \* granularity of the clock

Callers == 1..MaxCallers

NoHolder == 0

LimiterInit ==
    /\ remote = InitialRemote(<<FALSE, TRUE, 12>>)
    /\ db = EmptyDB
    /\ cache = <<>>
    /\ now = 0
    /\ pass = IdlePass
    /\ hist = [passes |-> 0, changes |-> 0, changed |-> FALSE, prev |-> NoPrev]
    /\ \E token \in {"", "ghp_token"} :
          /\ rateLimit = NewRateLimiter(token, 0)
          /\ call = [op |-> "acquire", token |-> token, mutex |-> NoHolder,
                     pc |-> [p \in Callers |-> "idle"],
                     start |-> NewRateLimiter(token, 0).tokens, granted |-> 0,
                     refilledEmpty |-> FALSE,
                     last |-> [caller |-> NoHolder, ok |-> FALSE]]

\* a Lock that does not wait for the mutex
LimiterLockUnguarded(p) ==
    /\ call.op = "acquire" /\ call.pc[p] = "idle"
    /\ call' = [call EXCEPT !.mutex = p, !.pc[p] = "refill"]
    /\ UNCHANGED <<remote, db, cache, rateLimit, now, pass, hist>>

\* rl.mutex.Lock()
LimiterLock(p) ==
    /\ call.op = "acquire" /\ call.pc[p] = "idle"
    /\ call.mutex = NoHolder
    /\ call' = [call EXCEPT !.mutex = p, !.pc[p] = "refill"]
    /\ UNCHANGED <<remote, db, cache, rateLimit, now, pass, hist>>

\* if time.Now().After(rl.refillAt) { rl.tokens = rl.maxTokens; rl.refillAt = ... }
LimiterRefill(p) ==
    /\ call.op = "acquire" /\ call.pc[p] = "refill"
    /\ rateLimit' = Refilled(rateLimit, now)
    /\ call' = [call EXCEPT !.pc[p] = "test",
                            !.start = IF now > rateLimit.refillAt THEN rateLimit'.tokens ELSE @,
                            !.granted = IF now > rateLimit.refillAt THEN 0 ELSE @,
                            !.refilledEmpty = IF now > rateLimit.refillAt
                                              THEN rateLimit.tokens = 0 ELSE @]
    /\ UNCHANGED <<remote, db, cache, now, pass, hist>>

\* if rl.tokens > 0, and return false when it is not
LimiterTest(p) ==
    /\ call.op = "acquire" /\ call.pc[p] = "test"
    /\ call' = IF rateLimit.tokens > 0
               THEN [call EXCEPT !.pc[p] = "dec"]
               ELSE [call EXCEPT !.pc[p] = "unlock", !.last = [caller |-> p, ok |-> FALSE]]
    /\ UNCHANGED <<remote, db, cache, rateLimit, now, pass, hist>>

\* rl.tokens--; return true
LimiterDec(p) ==
    /\ call.op = "acquire" /\ call.pc[p] = "dec"
    /\ rateLimit' = [rateLimit EXCEPT !.tokens = @ - 1]
    /\ call' = [call EXCEPT !.pc[p] = "unlock", !.granted = @ + 1,
                            !.last = [caller |-> p, ok |-> TRUE]]
    /\ UNCHANGED <<remote, db, cache, now, pass, hist>>

\* defer rl.mutex.Unlock()
LimiterUnlock(p) ==
    /\ call.op = "acquire" /\ call.pc[p] = "unlock"
    /\ call' = [call EXCEPT !.mutex = NoHolder, !.pc[p] = "idle"]
    /\ UNCHANGED <<remote, db, cache, rateLimit, now, pass, hist>>

LimiterTick ==
    /\ call.op = "acquire"
    /\ now + LimiterStep <= MaxLimiterTime
    /\ now' = now + LimiterStep
    /\ UNCHANGED <<remote, db, cache, rateLimit, pass, hist, call>>

Lock == \E p \in Callers : LimiterLock(p)
Refill == \E p \in Callers : LimiterRefill(p)
Test == \E p \in Callers : LimiterTest(p)
Dec == \E p \in Callers : LimiterDec(p)
Unlock == \E p \in Callers : LimiterUnlock(p)

LimiterNext ==
    \/ Lock
    \/ Refill
    \/ Test
    \/ Dec
    \/ Unlock
    \/ LimiterTick

LimiterSpec == LimiterInit /\ [][LimiterNext]_vars

----------------------------------------------------------------------------
(* The cache under concurrent callers: get and getWithPagination statement  *)
(* by statement, each caller at its own position, with the read-write      *)
(* mutex of the cache between them, and clearCache called meanwhile.       *)

MaxClears == 1          \* calls of clearCache in one behaviour
MaxSharedTokens == 2    \* tokens the limiter has left at the start
MaxSharedTime == 10     \* the clock stops here, when the first entries expire

\* the urls the callers ask for
SharedURLs == {ListURL, ReadmeURL("cn/terraform-azure-vnet")}

\* the kind of cache entry a function stores and accepts
KindOf(fn) == IF fn = "getWithPagination" THEN "paginated" ELSE "bytes"

SharedInit ==
    /\ remote = InitialRemote(<<FALSE, TRUE, 12>>)
    /\ db = EmptyDB
    /\ cache = <<>>
    /\ now = 0
    /\ pass = IdlePass
    /\ hist = [passes |-> 0, changes |-> 0, changed |-> FALSE, prev |-> NoPrev]
    /\ \E tokens \in 1..MaxSharedTokens :
          rateLimit = [tokens |-> tokens, maxTokens |-> AnonymousCapacity, refillAt |-> RefillPeriod]
    /\ call = [op |-> "client",
               pc |-> [p \in Callers |-> "idle"],
               fn |-> [p \in Callers |-> "none"],
               url |-> [p \in Callers |-> ""],
               resp |-> [p \in Callers |-> Response(0, "", "")],
               issued |-> [p \in Callers |-> 0],
               readers |-> 0,
               rlocked |-> [p \in Callers |-> 0],
               fault |-> FALSE,
               crashed |-> FALSE,
               clears |-> 0,
               entryIssued |-> [u \in SharedURLs |-> 0]]

\* caller p is at position pc of its call and the process is running
At(p, pc) == call.op = "client" /\ ~call.crashed /\ call.pc[p] = pc

\* gc.cacheMutex.RUnlock() by caller p, who goes on at position pc: with no reader left
\* the runtime stops the process (fatal error: sync: RUnlock of unlocked RWMutex); with
\* another reader inside, the count goes down and that reader's lock is released
RUnlocked(c, p, pc) ==
    IF c.readers = 0
    THEN [c EXCEPT !.pc[p] = "crashed", !.crashed = TRUE, !.fault = TRUE]
    ELSE [c EXCEPT !.pc[p] = pc, !.readers = @ - 1,
                   !.rlocked[p] = IF @ > 0 THEN @ - 1 ELSE @,
                   !.fault = @ \/ c.rlocked[p] = 0]

\* gc.cacheMutex.RLock(), first statement of get(url) and of getWithPagination(url)
SharedEnter(p) ==
    /\ At(p, "idle")
    /\ \E fn \in {"get", "getWithPagination"}, url \in SharedURLs :
          /\ fn = "getWithPagination" => url = ListURL
          /\ call' = [call EXCEPT !.pc[p] = "check", !.fn[p] = fn, !.url[p] = url,
                                  !.readers = @ + 1, !.rlocked[p] = @ + 1]
    /\ UNCHANGED <<remote, db, cache, rateLimit, now, pass, hist>>

\* if entry, exists := gc.cache[url]; exists && time.Now().Before(entry.ExpiresAt) {
\*     gc.cacheMutex.RUnlock()
SharedCheck(p) ==
    /\ At(p, "check")
    /\ call' = IF call.url[p] \in DOMAIN cache /\ now < cache[call.url[p]].ExpiresAt
               THEN RUnlocked(call, p, "assert")
               ELSE [call EXCEPT !.pc[p] = "runlock"]
    /\ UNCHANGED <<remote, db, cache, rateLimit, now, pass, hist>>

\* if data, ok := entry.Data.([]byte); ok { return data, nil } and the end of the if
SharedAssert(p) ==
    /\ At(p, "assert")
    /\ call' = IF call.url[p] \in DOMAIN cache
                    /\ cache[call.url[p]].Data.kind # KindOf(call.fn[p])
               THEN [call EXCEPT !.pc[p] = "runlock"]
               ELSE [call EXCEPT !.pc[p] = "idle"]
    /\ UNCHANGED <<remote, db, cache, rateLimit, now, pass, hist>>

\* gc.cacheMutex.RUnlock() after the if
SharedRUnlock(p) ==
    /\ At(p, "runlock")
    /\ call' = RUnlocked(call, p, "request")
    /\ UNCHANGED <<remote, db, cache, rateLimit, now, pass, hist>>

\* acquire and httpClient.Do: the response is the one of the remote at this moment
SharedRequest(p) ==
    /\ At(p, "request")
    /\ \E rq \in {Request(remote, rateLimit, call.url[p], now)} :
          /\ rateLimit' = rq.rl
          /\ call' = IF rq.err # NoError \/ rq.resp.status # StatusOK
                     THEN [call EXCEPT !.pc[p] = "idle"]
                     ELSE [call EXCEPT !.pc[p] = "store", !.resp[p] = rq.resp,
                                       !.issued[p] = call.clears]
    /\ UNCHANGED <<remote, db, cache, now, pass, hist>>

\* gc.cacheMutex.Lock(); gc.cache[url] = CacheEntry{...}; gc.cacheMutex.Unlock(); return
SharedStore(p) ==
    /\ At(p, "store")
    /\ call.readers = 0
    /\ cache' = CachePut(cache, call.url[p],
                         CacheEntry(IF call.fn[p] = "getWithPagination"
                                    THEN PaginatedResponse(call.resp[p].body,
                                                           parseNextLink(call.resp[p].link))
                                    ELSE Bytes(call.resp[p].body),
                                    now))
    /\ call' = [call EXCEPT !.pc[p] = "idle", !.resp[p] = Response(0, "", ""),
                            !.entryIssued[call.url[p]] = call.issued[p]]
    /\ UNCHANGED <<remote, db, rateLimit, now, pass, hist>>

\* clearCache, called by another goroutine: Lock, a new map, Unlock
SharedClearCache ==
    /\ call.op = "client" /\ ~call.crashed
    /\ call.readers = 0
    /\ call.clears < MaxClears
    /\ cache' = clearCache(cache)
    /\ call' = [call EXCEPT !.clears = @ + 1]
    /\ UNCHANGED <<remote, db, rateLimit, now, pass, hist>>

SharedTick ==
    /\ call.op = "client" /\ ~call.crashed
    /\ now < MaxSharedTime
    /\ now' = now + CacheTTL
    /\ UNCHANGED <<remote, db, cache, rateLimit, pass, hist, call>>

Enter == \E p \in Callers : SharedEnter(p)
Check == \E p \in Callers : SharedCheck(p)
TypeAssert == \E p \in Callers : SharedAssert(p)
RUnlock == \E p \in Callers : SharedRUnlock(p)
SendRequest == \E p \in Callers : SharedRequest(p)
Store == \E p \in Callers : SharedStore(p)

SharedNext ==
    \/ Enter
    \/ Check
    \/ TypeAssert
    \/ RUnlock
    \/ SendRequest
    \/ Store
    \/ SharedClearCache
    \/ SharedTick

SharedSpec == SharedInit /\ [][SharedNext]_vars

----------------------------------------------------------------------------
(* The functions without state, each called once on an input drawn from a  *)
(* bounded set: call holds the arguments and, once the function has        *)
(* returned, the result.                                                   *)

\* the variables the syncer and the client have, untouched by these calls
Untouched ==
    /\ remote = InitialRemote(<<FALSE, TRUE, 12>>)
    /\ db = EmptyDB
    /\ cache = <<>>
    /\ now = 0
    /\ rateLimit = [tokens |-> MaxTokens, maxTokens |-> MaxTokens, refillAt |-> RefillPeriod]
    /\ pass = IdlePass
    /\ hist = [passes |-> 0, changes |-> 0, changed |-> FALSE, prev |-> NoPrev]

MaxBlocks == 2          \* blocks of a parsed file
MaxFiles == 2           \* changed files of a comparison

\* the blocks the bodies are made of
SomeBlocks ==
    { Block("variable", <<"name">>),
      BlockWith("variable", <<"name">>, "default" :> "null"),
      BlockWith("variable", <<"sku">>, "default" :> "\"standard\""),
      BlockWith("variable", <<"tags">>, ("type" :> "map(string)") @@ ("default" :> "{}")),
      BlockWith("variable", <<"location">>, "type" :> "string"),
      BlockWith("variable", <<"secret">>, ("sensitive" :> "true") @@ ("description" :> "\"default\"")),
      Block("variable", <<>>),
      BlockWith("output", <<"id">>, "default" :> "null") }

\* the sequences of at most n elements of a set
SeqsUpTo(S, n) == UNION {[1..k -> S] : k \in 0..n}

ExtractInit ==
    /\ Untouched
    /\ \E blocks \in SeqsUpTo(SomeBlocks, MaxBlocks) :
          call = [op |-> "extractVariables", pc |-> "called",
                  body |-> Content(TRUE, blocks), rows |-> <<>>]

CallExtractVariables ==
    /\ call.op = "extractVariables" /\ call.pc = "called"
    /\ call' = [call EXCEPT !.pc = "returned", !.rows = extractVariables(call.body, "m")]
    /\ UNCHANGED <<remote, db, cache, rateLimit, now, pass, hist>>

ExtractNext == CallExtractVariables

ExtractSpec == ExtractInit /\ [][ExtractNext]_vars

\* the source texts of a sensitive attribute
SomeSensitiveTexts == {"true", "false", "TRUE", "True", "\"true\"", "var.secret", "null"}

\* variable and output blocks without and with a sensitive attribute
SomeSensitiveBlocks ==
    {Block(type, <<"secret">>) : type \in {"variable", "output"}}
        \cup {BlockWith(type, <<"secret">>, "sensitive" :> text) :
                 type \in {"variable", "output"}, text \in SomeSensitiveTexts}

SensitiveInit ==
    /\ Untouched
    /\ \E blocks \in SeqsUpTo(SomeSensitiveBlocks, MaxBlocks),
          op \in {"extractVariables", "extractOutputs"} :
          call = [op |-> op, pc |-> "called", body |-> Content(TRUE, blocks), rows |-> <<>>]

CallExtractOutputs ==
    /\ call.op = "extractOutputs" /\ call.pc = "called"
    /\ call' = [call EXCEPT !.pc = "returned", !.rows = extractOutputs(call.body, "m")]
    /\ UNCHANGED <<remote, db, cache, rateLimit, now, pass, hist>>

SensitiveNext ==
    \/ CallExtractVariables
    \/ CallExtractOutputs

SensitiveSpec == SensitiveInit /\ [][SensitiveNext]_vars

----------------------------------------------------------------------------
(* parseAndIndexTerraformFiles on its own, for a module whose files are in  *)
(* the store.                                                               *)

MaxModuleFiles == 3     \* files of the module

\* database.ModuleFile as syncRepositoryFromArchive fills it
ModuleFile(moduleID, relativePath, content) ==
    [ModuleID |-> moduleID, FileName |-> PathBase(relativePath), FilePath |-> relativePath,
     FileType |-> getFileType(PathBase(relativePath)), Content |-> content]

\* the files the modules are made of: one does not parse, one is no configuration file
SomeModuleFiles ==
    { ModuleFile("m", "main.tf",
                 Content(TRUE, <<Block("variable", <<"name">>),
                                 Block("resource", <<"azurerm_key_vault", "this">>)>>)),
      ModuleFile("m", "broken.tf",
                 Content(FALSE, <<Block("variable", <<"lost">>), Block("output", <<"lost">>)>>)),
      ModuleFile("m", "outputs.tf", Content(TRUE, <<Block("output", <<"id">>)>>)),
      ModuleFile("m", "data.tf",
                 Content(TRUE, <<Block("data", <<"azurerm_client_config", "current">>)>>)),
      ModuleFile("m", "docs/variables.md", Content(TRUE, <<Block("variable", <<"doc">>)>>)) }

RECURSIVE InsertFiles(_, _)
InsertFiles(d, files) ==
    IF files = <<>> THEN d ELSE InsertFiles(InsertFile(d, Head(files)), Tail(files))

IndexInit ==
    /\ remote = InitialRemote(<<FALSE, TRUE, 12>>)
    /\ cache = <<>>
    /\ now = 0
    /\ rateLimit = [tokens |-> MaxTokens, maxTokens |-> MaxTokens, refillAt |-> RefillPeriod]
    /\ pass = IdlePass
    /\ hist = [passes |-> 0, changes |-> 0, changed |-> FALSE, prev |-> NoPrev]
    /\ \E files \in SeqsUpTo(SomeModuleFiles, MaxModuleFiles) :
          db = InsertFiles(InsertModule(EmptyDB, Module("m", Org \o "/m", T1)).db, files)
    /\ call = [op |-> "parseAndIndexTerraformFiles", pc |-> "called", moduleID |-> "m",
               err |-> NoError]

\* return nil at the end of parseAndIndexTerraformFiles
CallParseAndIndexTerraformFiles ==
    /\ call.op = "parseAndIndexTerraformFiles" /\ call.pc = "called"
    /\ db' = parseAndIndexTerraformFiles(db, call.moduleID)
    /\ call' = [call EXCEPT !.pc = "returned", !.err = NoError]
    /\ UNCHANGED <<remote, cache, rateLimit, now, pass, hist>>

IndexNext == CallParseAndIndexTerraformFiles

IndexSpec == IndexInit /\ [][IndexNext]_vars

----------------------------------------------------------------------------
(* TerraformParser.getDefaultValue: the static evaluation of the default    *)
(* expression of a variable.                                                *)

\* cty.Value: null or not, its type and what it holds: a primitive value holds a string, a
\* number whole + tenths/10 or a boolean, a collection holds its elements
CtyVal(ty, v) == [null |-> FALSE, ty |-> ty, v |-> v]
Primitive(str, whole, tenths, bool) == [str |-> str, whole |-> whole, tenths |-> tenths, bool |-> bool]
CtyString(str) == CtyVal("string", Primitive(str, 0, 0, FALSE))
CtyNumber(whole, tenths) == CtyVal("number", Primitive("", whole, tenths, FALSE))
CtyBool(b) == CtyVal("bool", Primitive("", 0, 0, b))
\* cty.NullVal(cty.DynamicPseudoType)
CtyNull == [null |-> TRUE, ty |-> "dynamic", v |-> Primitive("", 0, 0, FALSE)]

\* hclsyntax expressions: a literal with its value, a tuple constructor with its element
\* expressions, an object constructor with its items, and the kinds that hold nothing static
LiteralValueExpr(val) == [expr |-> "LiteralValueExpr", val |-> val, exprs |-> <<>>, items |-> <<>>]
TupleConsExpr(exprs) == [expr |-> "TupleConsExpr", val |-> CtyNull, exprs |-> exprs, items |-> <<>>]
ObjectConsExpr(items) == [expr |-> "ObjectConsExpr", val |-> CtyNull, exprs |-> <<>>, items |-> items]
OtherExpr(kind) == [expr |-> kind, val |-> CtyNull, exprs |-> <<>>, items |-> <<>>]

\* an item of an object constructor: the expression its key wraps, the root name of the
\* key when that is a traversal, and the value expression
ObjectConsItem(wrapped, rootName, valueExpr) ==
    [wrapped |-> wrapped, rootName |-> rootName, valueExpr |-> valueExpr]

\* Go values of type any
Nil == [kind |-> "nil", v |-> ""]
GoString(str) == [kind |-> "string", v |-> str]
GoInt64(n) == [kind |-> "int64", v |-> n]
GoFloat64(number) == [kind |-> "float64", v |-> number]
GoBool(b) == [kind |-> "bool", v |-> b]
GoSlice(elems) == [kind |-> "[]any", v |-> elems]
GoMap(m) == [kind |-> "map[string]any", v |-> m]

\* a default case of extractCtyValue that returns the kind of the expression as a string
NotStaticAsText(e) == [val |-> CtyString(e.expr), err |-> NoError]

\* the default case of extractCtyValue: return cty.NullVal(cty.DynamicPseudoType), nil
NotStatic(e) == [val |-> CtyNull, err |-> NoError]

\* the first error among the results rs, NoError if there is none
FirstErr(rs) ==
    IF \A i \in 1..Len(rs) : rs[i].err = NoError THEN NoError
    ELSE rs[CHOOSE i \in 1..Len(rs) :
                /\ rs[i].err # NoError
                /\ \A j \in 1..(i - 1) : rs[j].err = NoError].err

\* values[key] = val for the items in order; an item whose key is no traversal is left out
ObjectValues(items, rs) ==
    LET Keyed == {i \in 1..Len(items) :
                    items[i].wrapped = "ScopeTraversalExpr" /\ items[i].rootName # ""}
        Last(key) == CHOOSE i \in Keyed :
                        /\ items[i].rootName = key
                        /\ \A j \in Keyed : items[j].rootName = key => j <= i
    IN [key \in {items[i].rootName : i \in Keyed} |-> rs[Last(key)].val]

\* TerraformParser.extractCtyValue
RECURSIVE extractCtyValue(_)
extractCtyValue(e) ==
    LET Tuple(rs) ==
            IF FirstErr(rs) # NoError THEN [val |-> CtyNull, err |-> FirstErr(rs)]
            ELSE IF Len(rs) = 0 THEN [val |-> CtyVal("list", <<>>), err |-> NoError]
            ELSE [val |-> CtyVal("tuple", [i \in 1..Len(rs) |-> rs[i].val]), err |-> NoError]
        \* the result of an item whose key is left out is not asked for
        Object(rs) ==
            IF FirstErr(rs) # NoError THEN [val |-> CtyNull, err |-> FirstErr(rs)]
            ELSE [val |-> CtyVal("object", ObjectValues(e.items, rs)), err |-> NoError]
    IN IF e.expr = "LiteralValueExpr" THEN [val |-> e.val, err |-> NoError]
       ELSE IF e.expr = "TupleConsExpr"
       THEN Apply(Tuple, [i \in 1..Len(e.exprs) |-> extractCtyValue(e.exprs[i])])
       ELSE IF e.expr = "ObjectConsExpr"
       THEN Apply(Object, [i \in 1..Len(e.items) |->
                              IF e.items[i].wrapped = "ScopeTraversalExpr"
                                 /\ e.items[i].rootName # ""
                              THEN extractCtyValue(e.items[i].valueExpr)
                              ELSE [val |-> CtyNull, err |-> NoError]])
       ELSE NotStatic(e)

\* TerraformParser.ctyValueToGo
RECURSIVE ctyValueToGo(_)
ctyValueToGo(val) ==
    IF val.null THEN Nil
    ELSE IF val.ty = "string" THEN GoString(val.v.str)
    ELSE IF val.ty = "number"
    THEN IF val.v.tenths = 0 THEN GoInt64(val.v.whole)
         ELSE GoFloat64([whole |-> val.v.whole, tenths |-> val.v.tenths])
    ELSE IF val.ty = "bool" THEN GoBool(val.v.bool)
    ELSE IF val.ty \in {"list", "tuple", "set"}
    THEN GoSlice([i \in 1..Len(val.v) |-> ctyValueToGo(val.v[i])])
    ELSE IF val.ty \in {"map", "object"}
    THEN GoMap([key \in DOMAIN val.v |-> ctyValueToGo(val.v[key])])
    ELSE Nil

\* TerraformParser.getDefaultValue, for the attributes of a block; evalErr is the error of
\* extractCtyValue, which getDefaultValue turns into nil
getDefaultValue(attributes, name) ==
    LET Converted(r) == [value |-> IF r.err # NoError THEN Nil ELSE ctyValueToGo(r.val),
                         evalErr |-> r.err]
    IN IF name \notin DOMAIN attributes THEN [value |-> Nil, evalErr |-> NoError]
       ELSE Apply(Converted, extractCtyValue(attributes[name]))

MaxElems == 2           \* elements of a list and items of an object

\* expressions without parts
SomeLeaves ==
    { LiteralValueExpr(CtyString("standard")),
      LiteralValueExpr(CtyNumber(3, 0)),
      LiteralValueExpr(CtyNumber(2, 5)),
      LiteralValueExpr(CtyBool(TRUE)),
      LiteralValueExpr(CtyNull),
      OtherExpr("TemplateExpr"),
      OtherExpr("FunctionCallExpr"),
      OtherExpr("ScopeTraversalExpr") }

\* lists and objects of leaves
SomeLists == {TupleConsExpr(exprs) : exprs \in SeqsUpTo(SomeLeaves, MaxElems)}
SomeItems ==
    {ObjectConsItem("ScopeTraversalExpr", key, e) :
        key \in {"name", "sku"},
        e \in {LiteralValueExpr(CtyNumber(3, 0)), OtherExpr("FunctionCallExpr"), TupleConsExpr(<<>>)}}
        \cup {ObjectConsItem("TemplateExpr", "", LiteralValueExpr(CtyBool(TRUE)))}
SomeObjects == {ObjectConsExpr(items) : items \in SeqsUpTo(SomeItems, MaxElems)}

\* lists of lists and of objects, objects of objects
SomeNested ==
    {TupleConsExpr(<<e>>) :
        e \in {TupleConsExpr(<<LiteralValueExpr(CtyNumber(2, 5)), OtherExpr("ScopeTraversalExpr")>>),
               ObjectConsExpr(<<ObjectConsItem("ScopeTraversalExpr", "name",
                                                LiteralValueExpr(CtyString("standard")))>>)}}
        \cup {ObjectConsExpr(<<ObjectConsItem("ScopeTraversalExpr", "nested", ObjectConsExpr(<<>>))>>)}

SomeExprs == SomeLeaves \cup SomeLists \cup SomeObjects \cup SomeNested

DefaultInit ==
    /\ Untouched
    /\ \E attributes \in {<<>>} \cup {"default" :> e : e \in SomeExprs} :
          call = [op |-> "getDefaultValue", pc |-> "called", attributes |-> attributes,
                  value |-> Nil, evalErr |-> NoError]

CallGetDefaultValue ==
    /\ call.op = "getDefaultValue" /\ call.pc = "called"
    /\ \E r \in {getDefaultValue(call.attributes, "default")} :
          call' = [call EXCEPT !.pc = "returned", !.value = r.value, !.evalErr = r.evalErr]
    /\ UNCHANGED <<remote, db, cache, rateLimit, now, pass, hist>>

DefaultNext == CallGetDefaultValue

DefaultSpec == DefaultInit /\ [][DefaultNext]_vars

----------------------------------------------------------------------------
(* CategoryLearner: what Indexer.trainCategoryLearner learns from the       *)
(* modules of the index.                                                    *)

\* m[key]++ of a Go map of counters
Incremented(m, key) ==
    IF key \in DOMAIN m THEN [m EXCEPT ![key] = @ + 1] ELSE m @@ (key :> 1)

\* m[keys[i]]++ for i, i + 1, ...
RECURSIVE CountFrom(_, _, _)
CountFrom(m, keys, i) ==
    IF i > Len(keys) THEN m ELSE CountFrom(Incremented(m, keys[i]), keys, i + 1)

\* a terraform.Module, as far as the learner reads it: Resources holds the Type of each
\* resource block, in the order of the blocks
LearnedModule(name, description, resources) ==
    [Name |-> name, Description |-> description, Resources |-> resources]

\* NewCategoryLearner
NewCategoryLearner == [resourceTypes |-> <<>>, resourceClusters |-> <<>>, textPatterns |-> <<>>]

\* extractCategoryHint: the first part of the lower-cased name between hyphens that has
\* more than three characters and is neither terraform nor azure
extractCategoryHint(moduleName) ==
    LET First(parts) ==
            LET hits == {i \in 1..Len(parts) :
                           Len(parts[i]) > 3 /\ parts[i] \notin {"terraform", "azure"}}
            IN IF hits = {} THEN ""
               ELSE parts[CHOOSE i \in hits : \A j \in hits : i <= j]
    IN Apply(First, Split(ToLower(moduleName), "-"))

\* CategoryLearner.LearnFromModule
LearnFromModule(cl, module) ==
    LET moduleResources == module.Resources
        Long(word) == Len(word) > 3
        Clusters == IF Len(moduleResources) > 1
                    THEN [key \in DOMAIN cl.resourceClusters \cup {Join(moduleResources, ",")} |->
                            IF key = Join(moduleResources, ",") THEN moduleResources
                            ELSE cl.resourceClusters[key]]
                    ELSE cl.resourceClusters
        Patterns(words, categoryHint) ==
            IF categoryHint = "" THEN cl.textPatterns
            ELSE [hint \in DOMAIN cl.textPatterns \cup {categoryHint} |->
                    IF hint # categoryHint THEN cl.textPatterns[hint]
                    ELSE CountFrom(IF hint \in DOMAIN cl.textPatterns
                                   THEN cl.textPatterns[hint] ELSE <<>>,
                                   SelectSeq(words, Long), 1)]
    IN [resourceTypes |-> CountFrom(cl.resourceTypes, moduleResources, 1),
        resourceClusters |-> Clusters,
        textPatterns |-> Patterns(Apply(LAMBDA text : FieldsFunc(text, WhiteSpace),
                                        ToLower(module.Name \o " " \o module.Description)),
                                  extractCategoryHint(module.Name))]

MaxLearned == 3         \* modules of the index

SomeLearnedModules ==
    { LearnedModule("terraform-azure-vnet", "Virtual network",
                    <<"azurerm_virtual_network", "azurerm_subnet">>),
      LearnedModule("vnet-hub", "Hub vnet",
                    <<"azurerm_subnet", "azurerm_virtual_network">>),
      LearnedModule("vnet-spoke", "Spoke vnet with two subnets",
                    <<"azurerm_virtual_network", "azurerm_subnet", "azurerm_subnet">>),
      LearnedModule("terraform-azure-kv", "Key vaults",
                    <<"azurerm_key_vault", "azurerm_key_vault">>),
      LearnedModule("Storage", "A storage account", <<"azurerm_storage_account">>),
      LearnedModule("terraform-azure-rg", "", <<>>) }

\* i.modules holds one module for each name
LearnInit ==
    /\ Untouched
    /\ \E modules \in SUBSET SomeLearnedModules :
          /\ Cardinality(modules) \in 1..MaxLearned
          /\ call = [op |-> "trainCategoryLearner", pc |-> "training", modules |-> modules,
                      learned |-> {}, learner |-> NewCategoryLearner,
                      parserLearner |-> NewCategoryLearner]

\* one turn of the loop over i.modules, a Go map, whose order of iteration is not fixed
TrainOnModule ==
    /\ call.op = "trainCategoryLearner" /\ call.pc = "training"
    /\ \E module \in call.modules \ call.learned :
          \E learner \in {LearnFromModule(call.learner, module)} :
              call' = [call EXCEPT !.learned = @ \cup {module}, !.learner = learner]
    /\ UNCHANGED <<remote, db, cache, rateLimit, now, pass, hist>>

\* i.parser.SetLearner(learner) after the loop; the tags the modules then get from the
\* learner are not part of the learner
SetLearner ==
    /\ call.op = "trainCategoryLearner" /\ call.pc = "training"
    /\ call.learned = call.modules
    /\ call' = [call EXCEPT !.pc = "returned", !.parserLearner = call.learner]
    /\ UNCHANGED <<remote, db, cache, rateLimit, now, pass, hist>>

LearnNext == TrainOnModule \/ SetLearner

LearnSpec == LearnInit /\ [][LearnNext]_vars

\* a diff body of n characters without any token
RECURSIVE Filler(_)
Filler(n) == IF n = 0 THEN "" ELSE IF n = 1 THEN "+" ELSE Filler(n \div 2) \o Filler(n - n \div 2)

PatchDivisor == 400     \* score += len(patch) / 400

\* GitHubCompareFile
File(filename, patch) == [Filename |-> filename, Patch |-> patch]

\* the changed files the comparisons are made of
SomeFiles ==
    { File("main.tf", "+ resource x"),
      File("variables.tf", "+ variable y"),
      File("modules/vnet/main.tf", "+ peering = true"),
      File("src/modules/dns/main.tf", "+ DNS Zone"),
      File("examples/basic/main.tf", "+ module x"),
      File("docs/examples/basic/main.tf", "+ module x"),
      File("docs/CHANGELOG.md", "+ vnet peering"),
      File("README.md", "+ vnet_peering and a dns zone: fix dns, add peering"),
      File("tests/main_test.go", "+ func TestPeering"),
      File("internal/testdata/vnet.tf", "+ resource x"),
      File("infra\\Modules\\Peering\\Main.TF", "+ resource x"),
      File("outputs.tf", ""),
      File("big.tf", Filler(2 * PatchDivisor + 1)),
      File("small.tf", Filler(PatchDivisor - 1)) }

\* database.ModuleReleaseEntry: the normalized identifier (sql.NullString) and the title
ReleaseEntry(valid, identifier, title) ==
    [Identifier |-> [Valid |-> valid, String |-> identifier], Title |-> title]

SomeEntries ==
    { ReleaseEntry(TRUE, "VNet_Peering", "Add peering"),
      ReleaseEntry(TRUE, "vnet.vnet", ""),
      ReleaseEntry(FALSE, "", "Fix DNS"),
      ReleaseEntry(FALSE, "", "") }

SomeQueries == {"", "Peering", "dns zone", " vnet:peering - dns "}

ScoreInit ==
    /\ Untouched
    /\ \E entry \in SomeEntries, query \in SomeQueries :
          \/ \E file \in SomeFiles :
                call = [op |-> "scorePatchCandidate", pc |-> "called",
                        file |-> file, entry |-> entry, query |-> query, score |-> 0]
          \/ \E files \in SeqsUpTo(SomeFiles, MaxFiles), isNil \in BOOLEAN :
                /\ isNil => files = <<>>
                /\ call = [op |-> "locatePatchForEntry", pc |-> "called",
                           compare |-> [isNil |-> isNil, Files |-> files],
                           entry |-> entry, query |-> query, file |-> "", patch |-> ""]

CallScorePatchCandidate ==
    /\ call.op = "scorePatchCandidate" /\ call.pc = "called"
    /\ call' = [call EXCEPT !.pc = "returned",
                            !.score = scorePatchCandidate(call.file.Filename, call.file.Patch,
                                          buildReleaseEntryTargets(call.entry, call.query))]
    /\ UNCHANGED <<remote, db, cache, rateLimit, now, pass, hist>>

CallLocatePatchForEntry ==
    /\ call.op = "locatePatchForEntry" /\ call.pc = "called"
    /\ \E r \in {locatePatchForEntry(call.compare, call.entry, call.query)} :
          call' = [call EXCEPT !.pc = "returned", !.file = r.file, !.patch = r.patch]
    /\ UNCHANGED <<remote, db, cache, rateLimit, now, pass, hist>>

ScoreNext ==
    \/ CallScorePatchCandidate
    \/ CallLocatePatchForEntry

ScoreSpec == ScoreInit /\ [][ScoreNext]_vars

MaxLines == 4           \* lines of a release block

\* the lines the release blocks are made of
SomeLines ==
    { "## [1.2.0] (2025-01-01)",
      "### Features",
      "###   Bug Fixes  ",
      "- add peering",
      "* Fix DNS (#12)",
      "  - add peering  ",
      "-",
      "",
      "plain text" }

ChangelogInit ==
    /\ Untouched
    /\ \E lines \in SeqsUpTo(SomeLines, MaxLines) :
          call = [op |-> "parseReleaseEntriesFromBlock", pc |-> "called",
                  block |-> Join(lines, "\n"), entries |-> <<>>]

CallParseReleaseEntriesFromBlock ==
    /\ call.op = "parseReleaseEntriesFromBlock" /\ call.pc = "called"
    /\ call' = [call EXCEPT !.pc = "returned",
                            !.entries = parseReleaseEntriesFromBlock(call.block)]
    /\ UNCHANGED <<remote, db, cache, rateLimit, now, pass, hist>>

ChangelogNext == CallParseReleaseEntriesFromBlock

ChangelogSpec == ChangelogInit /\ [][ChangelogNext]_vars

----------------------------------------------------------------------------
(* fetchRepositories on its own, one turn of its page loop at a time,       *)
(* against listing pages with any of a few Link headers.  call holds the    *)
(* locals url and allRepos, the urls passed to getWithPagination so far,    *)
(* the parity of the number of turns taken, and what the function has       *)
(* returned.                                                                *)

MaxVisits == 4          \* turns of the page loop that are recorded: later ones leave
                        \* visited and allRepos as they are
MaxDiscoverTokens == 3  \* tokens of the limiter when fetchRepositories is called
MaxDiscoverTime == 15   \* the clock stops advancing here
MaxStatusChanges == 1   \* changes of the status of the listing endpoint

\* a page the organisation does not have: the remote answers 404
ListURL3 == ListURL \o "&page=3"

\* the links of the first and of the second listing page
SomeLinks1 ==
    {<<>>, Links1, <<Link(ListURL2, "last")>>, <<Link(ListURL, "first"), Link(ListURL2, "next")>>,
     <<Link(ListURL, "next")>>, <<Link(ListURL3, "next"), Link(ListURL3, "last")>>}
SomeLinks2 ==
    {<<>>, Links2, <<Link(ListURL, "prev"), Link(ListURL, "next")>>,
     <<Link(ListURL, "prev"), Link(ListURL3, "next")>>}

DiscoverInit ==
    /\ \E l1 \in SomeLinks1, l2 \in SomeLinks2 :
          remote = [InitialRemote(<<FALSE, TRUE, 12>>) EXCEPT !.links1 = l1, !.links2 = l2]
    /\ db = EmptyDB
    /\ cache = <<>>
    /\ now = 0
    /\ \E n \in 0..MaxDiscoverTokens :
          rateLimit = [tokens |-> n, maxTokens |-> MaxDiscoverTokens, refillAt |-> RefillPeriod]
    /\ pass = IdlePass
    /\ hist = [passes |-> 0, changes |-> 0, changed |-> FALSE, prev |-> NoPrev]
    /\ call = [op |-> "fetchRepositories", pc |-> "loop", url |-> ListURL, allRepos |-> <<>>,
               visited |-> <<>>, sent |-> <<>>, status |-> <<>>, turn |-> 0, changes |-> 0,
               err |-> NoError, repos |-> <<>>]

\* one turn of: for url != "" { data, nextURL, err := getWithPagination(url) ... url = nextURL }
DiscoverPage ==
    /\ call.op = "fetchRepositories" /\ call.pc = "loop"
    /\ call.url # ""
    /\ \E r \in {getWithPagination(remote, Client(cache, rateLimit), call.url, now)},
          recorded \in {Len(call.visited) < MaxVisits} :
          /\ cache' = r.cl.cache
          /\ rateLimit' = r.cl.rateLimit
          /\ call' = [call EXCEPT
                        !.visited = IF recorded THEN Append(@, call.url) ELSE @,
                        !.sent = IF recorded THEN Append(@, r.sent) ELSE @,
                        !.status = IF recorded THEN Append(@, remote.listStatus) ELSE @,
                        !.turn = 1 - @,
                        !.pc = IF r.err # NoError THEN "returned" ELSE "loop",
                        !.err = r.err,
                        !.url = IF r.err # NoError THEN @ ELSE r.next,
                        !.allRepos = IF r.err # NoError \/ ~recorded THEN @ ELSE @ \o r.data]
    /\ UNCHANGED <<remote, db, now, pass, hist>>

\* the filter loop of fetchRepositories and its return
DiscoverFilter ==
    /\ call.op = "fetchRepositories" /\ call.pc = "loop"
    /\ call.url = ""
    /\ call' = [call EXCEPT !.pc = "returned", !.repos = FilterRepositories(call.allRepos)]
    /\ UNCHANGED <<remote, db, cache, rateLimit, now, pass, hist>>

DiscoverTick ==
    /\ now < MaxDiscoverTime
    /\ now' = now + TickMinutes
    /\ UNCHANGED <<remote, db, cache, rateLimit, pass, hist, call>>

\* the listing endpoint starts to answer with another status
DiscoverRemoteListStatus ==
    /\ call.changes < MaxStatusChanges
    /\ \E st \in ListStatuses \ {remote.listStatus} :
          remote' = [remote EXCEPT !.listStatus = st]
    /\ call' = [call EXCEPT !.changes = @ + 1]
    /\ UNCHANGED <<db, cache, rateLimit, now, pass, hist>>

DiscoverNext ==
    \/ DiscoverPage
    \/ DiscoverFilter
    \/ DiscoverTick
    \/ DiscoverRemoteListStatus

DiscoverSpec == DiscoverInit /\ [][DiscoverNext]_vars

\* fetchRepositories runs on the goroutine of the pass, which is not suspended for ever:
\* a turn of the loop that can be taken is taken
DiscoverFairSpec ==
    DiscoverInit /\ [][DiscoverNext]_vars /\ WF_vars(DiscoverPage) /\ WF_vars(DiscoverFilter)

----------------------------------------------------------------------------
(* Vocabulary of the properties *)

\* how often a row occurs in a table
Count(rows, row) == Cardinality({i \in 1..Len(rows) : rows[i] = row})

\* two tables hold the same rows, each as often: nothing duplicated, nothing lost
SameRows(rows1, rows2) ==
    \A row \in Range(rows1) \cup Range(rows2) : Count(rows1, row) = Count(rows2, row)

RowsOf(rows, id) == LET Mine(row) == row.ModuleID = id IN SelectSeq(rows, Mine)

ModuleNames(d) == {m.Name : m \in d.modules}

\* the structural entities of module id are the same in the two stores
SameEntities(d1, d2, id) ==
    /\ SameRows(RowsOf(d1.variables, id), RowsOf(d2.variables, id))
    /\ SameRows(RowsOf(d1.outputs, id), RowsOf(d2.outputs, id))
    /\ SameRows(RowsOf(d1.resources, id), RowsOf(d2.resources, id))
    /\ SameRows(RowsOf(d1.dataSources, id), RowsOf(d2.dataSources, id))

SameFiles(d1, d2, id) == SameRows(RowsOf(d1.files, id), RowsOf(d2.files, id))

\* the ids that occur in the tables of a store
IdsIn(d) ==
    {row.ModuleID : row \in Range(d.files) \cup Range(d.variables) \cup Range(d.outputs)
                             \cup Range(d.resources) \cup Range(d.dataSources)}

\* every module of either store has the same structural entities in both
SameEntitySets(d1, d2) ==
    /\ ModuleNames(d1) = ModuleNames(d2)
    /\ \A id \in ModuleNames(d1) \cup IdsIn(d1) \cup IdsIn(d2) : SameEntities(d1, d2, id)

\* the root module of repository name or one of its submodules
RelatedTo(id, name) == id = name \/ HasPrefix(id, name \o "//modules/")

\* the loop of the running pass takes the turn of repository pass.repos[pass.i]
Turn == pass.pc = "loop" /\ pass.i <= Len(pass.repos) /\ pass'.i = pass.i + 1

CurrentRepo == pass.repos[pass.i]

\* a second SyncAll has returned its summary and the remote has not changed since the
\* first SyncAll returned its own
SecondFullPass ==
    /\ pass.pc = "done" /\ pass.mode = "all" /\ pass.summary
    /\ hist.prev.mode = "all"
    /\ ~hist.changed

MarkerUnchanged(d, repo) ==
    \E m \in d.modules : m.Name = repo.Name /\ m.LastUpdated = repo.UpdatedAt

(* C2: in SyncUpdates, the turn of a repository whose persisted Module exists and whose   *)
(* stored last-updated string equals the remote UpdatedAt leaves the store as it is,      *)
(* issues no request (syncRepository is not invoked) and adds exactly one to SkippedRepos.*)
C2_SkipUnchanged ==
    [][ (Turn /\ pass.mode = "updates" /\ MarkerUnchanged(db, CurrentRepo))
          => /\ db' = db
             /\ cache' = cache /\ rateLimit' = rateLimit
             /\ pass'.progress.SkippedRepos = pass.progress.SkippedRepos + 1
             /\ pass'.progress.UpdatedRepos = pass.progress.UpdatedRepos
             /\ pass'.progress.Errors = pass.progress.Errors ]_vars

C2_Witness ==
    /\ pass.pc = "done" /\ pass.mode = "updates"
    /\ pass.progress.SkippedRepos = 1
    /\ Len(pass.progress.UpdatedRepos) = 1
    /\ MarkerUnchanged(db, pass.repos[2])
    /\ RowsOf(db.files, KvName) # <<>>

\* what a sync of the repository into an empty store, with a fresh client, leaves behind
FreshSync(repo) ==
    syncRepository(remote, EmptyDB,
                   Client(<<>>, [tokens |-> 3, maxTokens |-> 3, refillAt |-> now + RefillPeriod]),
                   repo, now).db

\* the modules, files and structural entities of the repository are those of store d
ChildrenAre(d1, d, name) ==
    /\ {n \in ModuleNames(d1) : RelatedTo(n, name)} = {n \in ModuleNames(d) : RelatedTo(n, name)}
    /\ \A id \in {n \in ModuleNames(d1) \cup IdsIn(d1) \cup IdsIn(d) : RelatedTo(n, name)} :
          SameEntities(d1, d, id) /\ SameFiles(d1, d, id)

ErrorsAbout(errors, name) ==
    LET About(e) == HasPrefix(e, "Failed to sync " \o name \o ": ") IN SelectSeq(errors, About)

\* the archive endpoint of the repository answers with an error that is not "unavailable"
ArchiveFails(name) == remote.archive[name].status \in {500, 0}

(* C4: once discovery has succeeded, a turn whose syncRepository returns an error adds    *)
(* exactly one entry to Errors and the loop goes on to the next repository; the pass      *)
(* returns a summary with a nil error and ProcessedRepos = TotalRepos, in which every     *)
(* repository synced by SyncAll whose archive request fails has exactly one entry.        *)
C4_ErrorsDoNotStop ==
    /\ [][ Turn => /\ pass'.pc = "loop"
                   /\ pass'.progress.ProcessedRepos = pass.progress.ProcessedRepos + 1
                   /\ \/ pass'.progress.Errors = pass.progress.Errors
                      \/ /\ Len(pass'.progress.Errors) = Len(pass.progress.Errors) + 1
                         /\ SubSeq(pass'.progress.Errors, 1, Len(pass.progress.Errors))
                               = pass.progress.Errors
                         /\ ErrorsAbout(pass'.progress.Errors, CurrentRepo.Name) # <<>>
                   /\ (ArchiveFails(CurrentRepo.Name) /\ ~(pass.mode = "updates"
                                                          /\ MarkerUnchanged(db, CurrentRepo)))
                         => Len(pass'.progress.Errors) = Len(pass.progress.Errors) + 1 ]_vars
    /\ [](pass.pc = "loop" => pass.progress.ProcessedRepos = pass.i - 1)
    /\ []((pass.pc = "done" /\ pass.summary)
            => /\ pass.err = NoError
               /\ pass.progress.ProcessedRepos = pass.progress.TotalRepos
               /\ pass.progress.TotalRepos = Len(pass.repos)
               /\ (pass.mode = "all") =>
                    (\A k \in 1..Len(pass.repos) :
                        ArchiveFails(pass.repos[k].Name)
                            => Len(ErrorsAbout(pass.progress.Errors, pass.repos[k].Name)) = 1))

C4_Witness ==
    /\ pass.pc = "done" /\ pass.summary /\ pass.mode = "all"
    /\ ArchiveFails(VnetName)
    /\ Len(pass.progress.Errors) = 1
    /\ Len(ErrorsAbout(pass.progress.Errors, VnetName)) = 1
    /\ pass.progress.ProcessedRepos = 2
    /\ RowsOf(db.variables, KvName) # <<>>

\* syncRepository gets as far as the archive request, and the limiter grants it
ArchiveRequested(repo) ==
    acquire(fetchReadme(remote, Client(cache, rateLimit), repo.FullName, now).cl.rateLimit, now).ok

(* C5: when the archive request of a repository is answered with 404, 403 or 409, its     *)
(* turn records no error, leaves no Module, file or structural entity of that repository  *)
(* (root or submodule) in the store, leaves the rest of the store as it was and the loop  *)
(* goes on to the next repository.                                                         *)
C5_UnavailableRolledBack ==
    [][ ( /\ Turn
          /\ ~(pass.mode = "updates" /\ MarkerUnchanged(db, CurrentRepo))
          /\ remote.archive[CurrentRepo.Name].status \in {404, 403, 409}
          /\ ArchiveRequested(CurrentRepo) )
          => /\ pass'.progress.Errors = pass.progress.Errors
             /\ pass'.pc = "loop"
             /\ pass'.progress.ProcessedRepos = pass.progress.ProcessedRepos + 1
             /\ ~\E n \in ModuleNames(db') \cup IdsIn(db') : RelatedTo(n, CurrentRepo.Name)
             /\ \A n \in (ModuleNames(db) \cup IdsIn(db)) :
                    ~RelatedTo(n, CurrentRepo.Name)
                        => /\ n \in ModuleNames(db') <=> n \in ModuleNames(db)
                           /\ SameEntities(db, db', n) /\ SameFiles(db, db', n) ]_vars

C5_Witness ==
    /\ pass.pc = "done" /\ pass.summary
    /\ remote.archive[VnetName].status = 409
    /\ pass.progress.Errors = <<>>
    /\ pass.progress.ProcessedRepos = 2
    /\ VnetName \in ModuleNames(hist.prev.db)
    /\ ~\E n \in ModuleNames(db) \cup IdsIn(db) : RelatedTo(n, VnetName)
    /\ RowsOf(db.files, KvName) # <<>>

(* C6, as stated: a transient fetch failure at any point of a pass, discovery included,   *)
(* never makes SyncAll or SyncUpdates return an error: the pass returns a summary.        *)
C6_NeverFatal == pass.pc = "done" => (pass.err = NoError /\ pass.summary)

(* C7: after a successful discovery the repositories of the pass are exactly the          *)
(* discovered repositories, in discovery order, whose name begins with terraform-azure-   *)
(* and that are not private, not archived and of size greater than zero; no Module of a   *)
(* private, archived or zero-size repository is ever in the store.                        *)
C7_EligibleOnly ==
    LET Position(r) == CHOOSE k \in 1..Len(pass.allRepos) : pass.allRepos[k] = r
        Wanted(r) == /\ HasPrefix(r.Name, "terraform-azure-")
                     /\ ~r.Private /\ ~r.Archived /\ r.Size > 0
    IN /\ (pass.pc \in {"loop", "done"} /\ pass.err = NoError)
            => /\ \A k \in 1..Len(pass.repos) :
                     pass.repos[k] \in Range(pass.allRepos) /\ Wanted(pass.repos[k])
               /\ \A r \in Range(pass.allRepos) : Wanted(r) => r \in Range(pass.repos)
               /\ \A j, k \in 1..Len(pass.repos) :
                     j < k => Position(pass.repos[j]) < Position(pass.repos[k])
       /\ \A r \in Range(AllRemoteRepos(remote)) :
            ~Wanted(r) => ~\E n \in ModuleNames(db) \cup IdsIn(db) : RelatedTo(n, r.Name)

C7_Witness ==
    /\ pass.pc = "done" /\ pass.summary
    /\ Len(pass.allRepos) = 4
    /\ pass.allRepos[3].Name = OldName /\ pass.allRepos[3].Archived
    /\ [k \in 1..Len(pass.repos) |-> pass.repos[k].Name] = <<VnetName, KvName>>
    /\ ModuleNames(db) # {}

\* the archive entries syncRepositoryFromArchive retains: regular files below the top-level
\* directory, outside .git, .github, node_modules and .terraform
RetainedPaths(entries) ==
    {normalizeArchivePath(e.Name) :
        e \in {x \in Range(entries) :
                 /\ x.Typeflag = TypeReg
                 /\ Len(SplitN2(x.Name, "/")) = 2 /\ SplitN2(x.Name, "/")[2] # ""
                 /\ Range(Split(SplitN2(x.Name, "/")[2], "/")) \cap SkipDirs = {}}}

\* the module a persisted file of repository name belongs under, by its path
Partitioned(file, name) ==
    LET parts == Split(file.FilePath, "/") IN
    /\ (Len(parts) >= 3 /\ parts[1] = "modules")
          => file.ModuleID = name \o "//modules/" \o parts[2]
    /\ ~HasPrefix(file.FilePath, "modules/") => file.ModuleID = name

(* C8: after the turn of repository R, every file persisted for R whose path is           *)
(* modules/<name>/... is under the Module named R//modules/<name>, which exists, and      *)
(* every file whose path does not start with modules/ is under R's root Module; every     *)
(* retained file of the archive is persisted for R and the files of the other             *)
(* repositories are untouched.                                                            *)
C8_SubmodulePartition ==
    [][ (Turn /\ ~(pass.mode = "updates" /\ MarkerUnchanged(db, CurrentRepo)))
          => LET name == CurrentRepo.Name
                 Mine(file) == RelatedTo(file.ModuleID, name)
                 Others(file) == ~RelatedTo(file.ModuleID, name)
                 arch == remote.archive[name]
             IN /\ \A file \in Range(SelectSeq(db'.files, Mine)) :
                      /\ Partitioned(file, name)
                      /\ file.ModuleID \in ModuleNames(db')
                /\ SelectSeq(db'.files, Others) = SelectSeq(db.files, Others)
                /\ (arch.status = StatusOK /\ pass'.progress.Errors = pass.progress.Errors)
                      => {file.FilePath : file \in Range(SelectSeq(db'.files, Mine))}
                            = RetainedPaths(Tarball(name, arch.version)) ]_vars

C8_Witness ==
    /\ pass.pc = "loop" /\ pass.i = 2
    /\ \E file \in Range(db.files) :
          /\ file.FilePath = "modules/subnet/main.tf"
          /\ file.ModuleID = "terraform-azure-vnet//modules/subnet"
    /\ \E file \in Range(db.files) :
          file.FilePath = "main.tf" /\ file.ModuleID = "terraform-azure-vnet"
    /\ \E file \in Range(db.files) :
          file.FilePath = "examples/basic/main.tf" /\ file.ModuleID = "terraform-azure-vnet"

(* C9: after the turn of a repository that was synced before and whose archive is         *)
(* retrieved, its root module and its submodules hold exactly the files and structural    *)
(* entities a sync into an empty store yields from the current archive, and the           *)
(* submodules in the store are those of the current archive: nothing of an earlier sync   *)
(* survives.                                                                              *)
C9_NoStaleChildren ==
    [][ ( /\ Turn
          /\ ~(pass.mode = "updates" /\ MarkerUnchanged(db, CurrentRepo))
          /\ CurrentRepo.Name \in ModuleNames(db)
          /\ remote.archive[CurrentRepo.Name].status = StatusOK
          /\ pass'.progress.Errors = pass.progress.Errors )
          => ChildrenAre(db', FreshSync(CurrentRepo), CurrentRepo.Name) ]_vars

C9_Witness ==
    /\ pass.pc = "done" /\ pass.summary
    /\ hist.prev.mode \in {"all", "updates"}
    /\ SubmoduleName(VnetName, "subnet") \in ModuleNames(hist.prev.db)
    /\ RowsOf(hist.prev.db.variables, VnetName) # <<>>
    /\ remote.archive[VnetName].version = 2
    /\ pass.progress.Errors = <<>>
    /\ SubmoduleName(VnetName, "subnet") \notin ModuleNames(db)
    /\ SubmoduleName(VnetName, "peering") \in ModuleNames(db)
    /\ [k \in 1..Len(RowsOf(db.variables, VnetName)) |-> RowsOf(db.variables, VnetName)[k].Name]
          = <<"vnet">>

(* C10: the listing a SyncUpdates pass works from was fetched after the pass began, never *)
(* taken from a cache entry written earlier: it is the listing the remote has during the  *)
(* pass.                                                                                  *)
C10_FreshListing ==
    (pass.mode = "updates" /\ pass.pc \in {"loop", "done"} /\ pass.err = NoError)
        => /\ pass.fetchedAt >= pass.startedAt
           /\ pass.allRepos = AllRemoteRepos(remote)
           /\ \A url \in DOMAIN cache : cache[url].ExpiresAt >= pass.startedAt + CacheTTL

C10_Witness ==
    /\ pass.mode = "updates" /\ pass.pc = "loop"
    /\ hist.prev.mode = "all" /\ hist.changed
    /\ now < CacheTTL
    /\ VnetName \in ModuleNames(db)
    /\ GetModule(db, VnetName).LastUpdated = T1
    /\ pass.repos[1].UpdatedAt = T2

----------------------------------------------------------------------------
(* The client, call by call (ClientSpec) *)

\* a call of the client returns in this step
Returns(op) == call'.n = call.n + 1 /\ call'.op = op

\* the cache holds an entry for the url whose expiry instant is still in the future
Live(url) == url \in DOMAIN cache /\ now < cache[url].ExpiresAt

\* the limiter has no token and its refill deadline has not passed
Exhausted == rateLimit.tokens = 0 /\ ~(now > rateLimit.refillAt)

\* the body the remote answers the url with
BodyOf(url) == Respond(remote, url).body

RateLimitError == NewError("rate limit exceeded")

(* C11: acquire returns false when no token remains and the refill deadline has not       *)
(* passed, and true on the first acquisition made after the deadline has passed; with     *)
(* capacity 1 the first acquisition succeeds, an immediate second one fails and one made  *)
(* after the deadline succeeds.                                                           *)
C11_AcquireRefills ==
    [][ Returns("acquire")
          => /\ Exhausted => ~call'.ok
             /\ now > rateLimit.refillAt => call'.ok
             /\ (rateLimit.maxTokens = 1 /\ call.n = 0) => call'.ok
             /\ (rateLimit.maxTokens = 1 /\ call.op = "acquire" /\ call.ok /\ call.at = now)
                   => ~call'.ok ]_vars

C11_Witness ==
    /\ rateLimit.maxTokens = 1
    /\ Len(call.log) = 3
    /\ call.log[1] = <<"acquire", 0, TRUE>>
    /\ call.log[2] = <<"acquire", 0, FALSE>>
    /\ call.log[3][1] = "acquire" /\ call.log[3][2] > RefillPeriod /\ call.log[3][3]

C13_FailsFast ==
    [][ ( /\ Returns("get") \/ Returns("getWithPagination") \/ Returns("getArchive")
          /\ call'.op = "getArchive" \/ ~Live(call'.url)
          /\ Exhausted )
          => /\ call'.err = RateLimitError
             /\ ~call'.sent
             /\ cache' = cache
             /\ rateLimit' = rateLimit ]_vars

C13_Witness ==
    /\ Len(call.log) = 3
    /\ call.log[3] = <<"getWithPagination", 0, FALSE>>
    /\ call.err = RateLimitError /\ ~call.sent
    /\ rateLimit.tokens = 0
    /\ call.url \notin DOMAIN cache

(* C14: get and getWithPagination write a cache entry only when the request was answered  *)
(* with the success status, and then for the url of the call only; whenever they return   *)
(* an error (another status, a transport error, no token) the cache is left unchanged, so *)
(* no entry of the cache holds the answer of a failed request.                            *)
C14_CacheOnSuccessOnly ==
    [][ (Returns("get") \/ Returns("getWithPagination"))
          => /\ ~call'.ok => cache' = cache
             /\ cache' # cache
                   => /\ call'.sent /\ call'.ok
                      /\ Respond(remote, call'.url).status = StatusOK
                      /\ cache'[call'.url].Data.data = BodyOf(call'.url)
                      /\ \A url \in DOMAIN cache' :
                            url # call'.url => url \in DOMAIN cache /\ cache'[url] = cache[url] ]_vars

C14_Witness ==
    /\ Len(call.log) = 2
    /\ call.log[1] = <<"get", 0, TRUE>>
    /\ call.op = "get" /\ call.sent /\ ~call.ok
    /\ call.url = ReadmeURL(Org \o "/" \o VnetName)
    /\ remote.contentStatus = 500
    /\ call.url \in DOMAIN cache /\ cache[call.url].ExpiresAt = CacheTTL

(* C15: a getArchive that is answered returns an error matching ErrRepoContentUnavailable *)
(* exactly when the status is 404, 403 or 409; another status that is not 200 gives an    *)
(* error that does not match it, a 200 gives the body; getArchive never reads the cache   *)
(* (it asks the limiter and the remote even when a live entry exists) and never writes it.*)
C15_ArchiveClassified ==
    [][ Returns("getArchive")
          => /\ cache' = cache
             /\ call'.sent <=> ~Exhausted
             /\ call'.sent =>
                   LET status == Respond(remote, call'.url).status IN
                   /\ IsContentUnavailable(call'.err) <=> status \in {404, 403, 409}
                   /\ status = 200 => call'.ok /\ call'.data = BodyOf(call'.url)
                   /\ status # 200 => ~call'.ok
             /\ ~call'.sent => ~IsContentUnavailable(call'.err) /\ ~call'.ok ]_vars

C15_Witness ==
    /\ call.op = "getArchive" /\ call.sent
    /\ remote.archive[VnetName].status = 403
    /\ IsContentUnavailable(call.err)
    /\ Live(call.url)
    /\ rateLimit.tokens = 0

----------------------------------------------------------------------------
(* syncRepository, statement by statement (RepoSpec) *)

\* the second table holds a row more often than the first
Added(rows1, rows2) == \E i \in 1..Len(rows2) : Count(rows2, rows2[i]) > Count(rows1, rows2[i])

\* the rows the second table holds more often than the first
AddedRows(rows1, rows2) == {row \in Range(rows2) : Count(rows2, row) > Count(rows1, row)}

\* the position of a statement of syncRepository in its text
Rank(pc) ==
    CASE pc = "insert" -> 1
      [] pc = "readme" -> 2
      [] pc = "children" -> 3
      [] pc = "archive" -> 4
      [] pc = "entries" -> 5
      [] pc = "parse" -> 6
      [] pc = "parseSubmodules" -> 7
      [] OTHER -> 8

\* a configuration file of the store, of the module of the row, declares the row
Declares(d, moduleID, type, labels) ==
    \E file \in Range(d.files) :
        /\ file.ModuleID = moduleID
        /\ file.FileType = "terraform"
        /\ \E b \in Range(file.Content.blocks) :
              /\ b.Type = type
              /\ Len(b.Labels) >= Len(labels)
              /\ SubSeq(b.Labels, 1, Len(labels)) = labels

(* C16: within syncRepository the README is fetched first, then the archive is ingested,  *)
(* then the structure is extracted: requests for the README are made before the archive   *)
(* request, files are persisted only by the loop over the archive, and variables,         *)
(* outputs, resources and data sources are inserted only after the last entry of the      *)
(* archive has been processed and only from files that are in the store already; the      *)
(* statements, taken one by one, leave what syncRepository as a whole leaves.             *)
C16_FixedOrder ==
    /\ [][ /\ Rank(call.pc) <= Rank(call'.pc)
           /\ cache' # cache => call.pc = "readme"
           /\ rateLimit' # rateLimit => call.pc \in {"readme", "archive"}
           /\ Added(db.files, db'.files) => call.pc = "entries"
           /\ ( \/ Added(db.variables, db'.variables) \/ Added(db.outputs, db'.outputs)
                \/ Added(db.resources, db'.resources) \/ Added(db.dataSources, db'.dataSources) )
                 => /\ call.pc \in {"parse", "parseSubmodules"}
                    /\ call.k = Len(call.entries) + 1
                    /\ db'.files = db.files
                    /\ \A row \in AddedRows(db.variables, db'.variables) :
                          Declares(db, row.ModuleID, "variable", <<row.Name>>)
                    /\ \A row \in AddedRows(db.outputs, db'.outputs) :
                          Declares(db, row.ModuleID, "output", <<row.Name>>)
                    /\ \A row \in AddedRows(db.resources, db'.resources) :
                          Declares(db, row.ModuleID, "resource", <<row.ResourceType, row.ResourceName>>)
                    /\ \A row \in AddedRows(db.dataSources, db'.dataSources) :
                          Declares(db, row.ModuleID, "data", <<row.DataType, row.DataName>>) ]_vars
    /\ [](call.pc = "returned"
            => \E r \in {syncRepository(remote, call.start.db, Client(<<>>, call.start.rateLimit),
                                        call.repo, now)} :
                  /\ db = r.db
                  /\ call.err = r.err
                  /\ cache = r.cl.cache
                  /\ rateLimit = r.cl.rateLimit)

C16_Witness ==
    /\ call.op = "syncRepository" /\ call.pc = "returned" /\ call.err = NoError
    /\ call.repo.Name = VnetName
    /\ remote.archive[VnetName].version = 2
    /\ call.start.db # EmptyDB
    /\ call.k = Len(call.entries) + 1 /\ Len(call.entries) = 5
    /\ call.j = 3
    /\ RowsOf(db.outputs, SubmoduleName(VnetName, "peering")) # <<>>
    /\ RowsOf(db.variables, VnetName) # <<>>
    /\ GetModule(db, VnetName).ReadmeContent = ReadmeText(VnetName, 2)

(* C17, as stated: once cancellation of a pass has been requested, the loop of SyncAll or *)
(* SyncUpdates starts no further repository.                                              *)
C17_StopsWhenCancelled ==
    [][ pass.cancelled => ~Turn ]_vars

----------------------------------------------------------------------------
(* Structural extraction (ExtractSpec) *)

\* the variable blocks extractVariables turns into rows: those with a label
VariableBlocks(body) ==
    LET Labelled(b) == b.Type = "variable" /\ b.Labels # <<>> IN SelectSeq(body.blocks, Labelled)

(* C18: extractVariables returns one row per labelled variable block, in block order,     *)
(* and the row is Required exactly when the block has no default attribute: any default   *)
(* attribute, default = null included, gives Required false.                              *)
C18_RequiredIffNoDefault ==
    (call.op = "extractVariables" /\ call.pc = "returned")
        => /\ Len(call.rows) = Len(VariableBlocks(call.body))
           /\ \A i \in 1..Len(call.rows) :
                 /\ call.rows[i].Name = VariableBlocks(call.body)[i].Labels[1]
                 /\ call.rows[i].Required
                       <=> ~\E a \in DOMAIN VariableBlocks(call.body)[i].Attributes : a = "default"

C18_Witness ==
    /\ call.op = "extractVariables" /\ call.pc = "returned"
    /\ call.body.blocks = << BlockWith("variable", <<"name">>, "default" :> "null"),
                             BlockWith("variable", <<"location">>, "type" :> "string") >>
    /\ call.rows = << [ModuleID |-> "m", Name |-> "name", Required |-> FALSE, Sensitive |-> FALSE],
                      [ModuleID |-> "m", Name |-> "location", Required |-> TRUE, Sensitive |-> FALSE] >>

----------------------------------------------------------------------------
(* The release diff matcher (ScoreSpec) *)

\* the distinct tokens of an entry and a query: the lowered identifier, its parts and the
\* parts of the lowered query
TokenSet(entry, query) ==
    ( (IF entry.Identifier.Valid
       THEN {ToLower(entry.Identifier.String)}
                \cup Range(FieldsFunc(ToLower(entry.Identifier.String), {"-", "_", ".", " ", ":"}))
       ELSE {})
      \cup Range(FieldsFunc(ToLower(query), {"-", "_", ".", " ", ":"})) ) \ {""}

\* the fallback token: the lowered query, or the lowered title when there is no query
FallbackToken(entry, query) == IF query # "" THEN ToLower(query) ELSE ToLower(entry.Title)

\* path has the segment seg followed by something, at its start or after a slash
UnderSegment(path, seg) == Contains("/" \o path, "/" \o seg \o "/")

\* path has a segment that begins with test, at its start or after a slash
UnderTestPath(path) == Contains("/" \o path, "/test")

\* the weight table, every path adjustment applied to the first segment as to the others
TableScore(path, body, patchLen, entry, query) ==
      (IF HasSuffix(path, ".tf") THEN 150 ELSE 0)
    + (IF UnderSegment(path, "modules") THEN 20 ELSE 0)
    - (IF UnderSegment(path, "examples") THEN 60 ELSE 0)
    - (IF HasSuffix(path, ".md") \/ Contains(path, "changelog") THEN 180 ELSE 0)
    - (IF UnderTestPath(path) THEN 40 ELSE 0)
    + 35 * Cardinality({t \in TokenSet(entry, query) : Contains(path, t)})
    + 20 * Cardinality({t \in TokenSet(entry, query) : Contains(body, t)})
    + (IF FallbackToken(entry, query) # "" /\ Contains(body, FallbackToken(entry, query))
       THEN 10 ELSE 0)
    + patchLen \div PatchDivisor

(* C19: scorePatchCandidate returns the sum of the weight table, the adjustments for      *)
(* modules/, examples/ and a test path applied to every path in which the segment occurs, *)
(* the first segment of the path included.                                                *)
C19_WeightTable ==
    (call.op = "scorePatchCandidate" /\ call.pc = "returned")
        => call.score = TableScore(ToLower(ReplaceAll(call.file.Filename, "\\", "/")),
                                   ToLower(call.file.Patch), Len(call.file.Patch),
                                   call.entry, call.query)

\* the score of file k of the comparison of the call
ScoreOf(k) ==
    scorePatchCandidate(call.compare.Files[k].Filename, call.compare.Files[k].Patch,
                        buildReleaseEntryTargets(call.entry, call.query))

\* the files of the comparison that have a patch
WithPatch == {k \in 1..Len(call.compare.Files) : call.compare.Files[k].Patch # ""}

\* file k is the first of the files of greatest score
FirstBest(k) ==
    /\ k \in WithPatch
    /\ \A j \in WithPatch : ScoreOf(j) <= ScoreOf(k)
    /\ \A j \in WithPatch : j < k => ScoreOf(j) < ScoreOf(k)

(* C20: locatePatchForEntry returns the file of greatest score among the files with a      *)
(* non-empty patch, the first of them when several have that score, and two empty strings *)
(* when no file has a patch; a .md file is never returned when a .tf file with a patch    *)
(* scores 150 or more and the .md file less.                                              *)
C20_FirstMaximum ==
    (call.op = "locatePatchForEntry" /\ call.pc = "returned")
        => /\ WithPatch = {} => call.file = "" /\ call.patch = ""
           /\ \A k \in WithPatch :
                 FirstBest(k) => /\ call.file = call.compare.Files[k].Filename
                                 /\ call.patch = call.compare.Files[k].Patch
           /\ \A i, j \in WithPatch :
                 ( /\ HasSuffix(call.compare.Files[i].Filename, ".md")
                   /\ HasSuffix(call.compare.Files[j].Filename, ".tf")
                   /\ ScoreOf(j) >= 150
                   /\ ScoreOf(i) < 150 )
                     => call.file # call.compare.Files[i].Filename

\* the first of two .tf files of equal score is returned, and a .tf file matching no
\* token is returned after a .md file that holds every token of the query
C20_Witness ==
    /\ call.op = "locatePatchForEntry" /\ call.pc = "returned"
    /\ call.query = " vnet:peering - dns "
    /\ \/ /\ call.compare.Files = << File("README.md", "+ vnet_peering and a dns zone: fix dns, add peering"),
                                      File("main.tf", "+ resource x") >>
          /\ call.file = "main.tf"
       \/ /\ call.compare.Files = << File("variables.tf", "+ variable y"),
                                      File("main.tf", "+ resource x") >>
          /\ ScoreOf(1) = ScoreOf(2)
          /\ call.file = "variables.tf"

(* C21: locatePatchForEntry returns two empty strings exactly when the comparison is       *)
(* absent, lists no file or lists only files with an empty patch; when some file has a    *)
(* non-empty patch it returns one of those files with its patch, whatever the score.      *)
C21_NoCandidateDistinct ==
    (call.op = "locatePatchForEntry" /\ call.pc = "returned")
        => /\ (call.file = "" /\ call.patch = "")
                 <=> (call.compare.isNil \/ call.compare.Files = <<>> \/ WithPatch = {})
           /\ WithPatch # {}
                 => /\ call.patch # ""
                    /\ \E k \in WithPatch : /\ call.file = call.compare.Files[k].Filename
                                             /\ call.patch = call.compare.Files[k].Patch

\* a changelog file of negative score is returned when it is the only file with a patch,
\* next to a file without one
C21_Witness ==
    /\ call.op = "locatePatchForEntry" /\ call.pc = "returned"
    /\ call.compare.Files = << File("outputs.tf", ""), File("docs/CHANGELOG.md", "+ vnet peering") >>
    /\ call.query = "" /\ ~call.entry.Identifier.Valid
    /\ ScoreOf(2) < 0
    /\ call.file = "docs/CHANGELOG.md" /\ call.patch = "+ vnet peering"

----------------------------------------------------------------------------
(* Release notes (ChangelogSpec) *)

\* the lines of the block of the call, without the white space around them
BlockLines == [i \in 1..Len(Split(call.block, "\n")) |-> TrimSpace(Split(call.block, "\n")[i])]

\* line i is a bullet with a title: it begins with - or * and holds something else
IsBullet(i) ==
    /\ HasPrefix(BlockLines[i], "-") \/ HasPrefix(BlockLines[i], "*")
    /\ \E k \in 1..Len(BlockLines[i]) : SubSeq(BlockLines[i], k, k) \notin {"-", "*", " "}

\* line i is a heading of the third level
IsHeading(i) == HasPrefix(BlockLines[i], "### ")

\* the bullets, by line number, in order of appearance
Bullets == SelectSeq([i \in 1..Len(BlockLines) |-> i], IsBullet)

\* the label an entry of line i carries
LabelAbove(i) ==
    IF \E j \in 1..(i - 1) : IsHeading(j)
    THEN LET j == CHOOSE j \in 1..(i - 1) :
                      IsHeading(j) /\ \A m \in (j + 1)..(i - 1) : ~IsHeading(m)
         IN TrimSpace(SubSeq(BlockLines[j], 5, Len(BlockLines[j])))
    ELSE "Other"

(* C22: parseReleaseEntriesFromBlock yields one entry per bullet line with a title, in    *)
(* order of appearance, with OrderIndex 0, 1, 2, ..., each entry with the label of the    *)
(* most recent ### heading above it, Other when there is none, and with distinct keys.    *)
C22_EntriesInOrder ==
    (call.op = "parseReleaseEntriesFromBlock" /\ call.pc = "returned")
        => /\ Len(call.entries) = Len(Bullets)
           /\ \A k \in 1..Len(call.entries) :
                 /\ call.entries[k].OrderIndex = k - 1
                 /\ call.entries[k].Section = LabelAbove(Bullets[k])
                 /\ call.entries[k].Title
                       = TrimSpace(TrimLeft(BlockLines[Bullets[k]], {"-", "*", " "}))
           /\ \A k, m \in 1..Len(call.entries) :
                 k # m => call.entries[k].EntryKey # call.entries[m].EntryKey

\* two bullets under one heading, after the heading of the release
C22_Witness ==
    /\ call.op = "parseReleaseEntriesFromBlock" /\ call.pc = "returned"
    /\ call.block = "## [1.2.0] (2025-01-01)\n### Features\n- add peering\n* Fix DNS (#12)"
    /\ Len(call.entries) = 2
    /\ call.entries[1].Section = "Features" /\ call.entries[2].Section = "Features"
    /\ call.entries[1].OrderIndex = 0 /\ call.entries[2].OrderIndex = 1
    /\ call.entries[1].EntryKey = "features-0000" /\ call.entries[2].EntryKey = "features-0001"
    /\ call.entries[2].Title = "Fix DNS (#12)"
    /\ call.entries[2].Identifier = [String |-> "fix-dns---12", Valid |-> TRUE]

----------------------------------------------------------------------------
(* Failed syncs and the summary (Spec) *)

\* the turn of the running pass records an error for its repository
TurnFails == Turn /\ Len(pass'.progress.Errors) = Len(pass.progress.Errors) + 1

\* the repository has been synced before: its root module holds files
SyncedEarlier(d, repo) == repo.Name \in ModuleNames(d) /\ RowsOf(d.files, repo.Name) # <<>>

(* C23, as stated: when syncRepository fails for a repository that an earlier pass synced *)
(* successfully, the modules, files and structural entities of the repository are after  *)
(* the turn what they were before it.                                                     *)
C23_FailedResyncKeeps ==
    [][ (TurnFails /\ SyncedEarlier(db, CurrentRepo))
          => ChildrenAre(db', db, CurrentRepo.Name) ]_vars

(* C24, as stated: when syncRepository fails for a repository, the persisted Module of    *)
(* the repository does not carry the remote marker after the turn, so that the next       *)
(* SyncUpdates against the same remote state does not skip it.                            *)
C24_FailedSyncRetried ==
    [][ TurnFails => ~UpToDate(db', CurrentRepo) ]_vars

(* C25, as stated: when SyncUpdates returns, every name in UpdatedRepos is the name of a  *)
(* Module that is present in the store.                                                   *)
C25_UpdatedArePresent ==
    (pass.pc = "done" /\ pass.summary /\ pass.mode = "updates")
        => \A k \in 1..Len(pass.progress.UpdatedRepos) :
              pass.progress.UpdatedRepos[k] \in ModuleNames(db)

\* handleSyncUpdatesModules: synced := ProcessedRepos - len(Errors) - SkippedRepos
SyncedCount(progress) == progress.ProcessedRepos - Len(progress.Errors) - progress.SkippedRepos

(* C26: in SyncUpdates every repository whose turn is over has been counted once, as      *)
(* skipped, updated or failed; in the summary ProcessedRepos = TotalRepos = SkippedRepos  *)
(* + len(UpdatedRepos) + len(Errors), and the count the dispatch layer derives equals     *)
(* len(UpdatedRepos).  SyncAll leaves SkippedRepos at 0 and UpdatedRepos empty.           *)
C26_CountedOnce ==
    /\ (pass.pc \in {"loop", "done"} /\ pass.mode = "updates" /\ pass.err = NoError)
          => /\ pass.progress.ProcessedRepos = pass.i - 1
             /\ pass.progress.ProcessedRepos
                   = pass.progress.SkippedRepos + Len(pass.progress.UpdatedRepos)
                       + Len(pass.progress.Errors)
    /\ (pass.pc = "done" /\ pass.summary /\ pass.mode = "updates")
          => /\ pass.progress.ProcessedRepos = pass.progress.TotalRepos
             /\ pass.progress.TotalRepos = Len(pass.repos)
             /\ SyncedCount(pass.progress) = Len(pass.progress.UpdatedRepos)
    /\ (pass.mode = "all")
          => pass.progress.SkippedRepos = 0 /\ pass.progress.UpdatedRepos = <<>>

\* a SyncUpdates that fails for one repository and skips the other
C26_Witness ==
    /\ pass.pc = "done" /\ pass.summary /\ pass.mode = "updates"
    /\ pass.progress.TotalRepos = 2
    /\ pass.progress.SkippedRepos = 1
    /\ Len(pass.progress.Errors) = 1
    /\ pass.progress.UpdatedRepos = <<>>
    /\ SyncedCount(pass.progress) = 0

----------------------------------------------------------------------------
(* The limiter (LimiterSpec) *)

\* caller p leaves position pc in this step
Leaves(p, pc) == call.pc[p] = pc /\ call'.pc[p] # pc

(* C27: 0 <= tokens <= maxTokens always, the capacity being 60 without a credential and   *)
(* 5000 with one; tokens changes only by the decrement of a granted acquisition, by       *)
(* exactly one, or by the reset to maxTokens of an acquisition that happens after         *)
(* refillAt, which moves refillAt to one hour after it; nothing else refills.             *)
C27_LimiterBounds ==
    /\ [](call.op = "acquire"
            => /\ 0 <= rateLimit.tokens /\ rateLimit.tokens <= rateLimit.maxTokens
               /\ rateLimit.maxTokens = IF call.token = "" THEN 60 ELSE 5000)
    /\ [][ call.op = "acquire" =>
            /\ rateLimit' # rateLimit
                  => \/ /\ \E p \in Callers : Leaves(p, "refill")
                        /\ now > rateLimit.refillAt
                        /\ rateLimit' = [rateLimit EXCEPT !.tokens = rateLimit.maxTokens,
                                                           !.refillAt = now + RefillPeriod]
                     \/ /\ \E p \in Callers : Leaves(p, "dec") /\ call'.last = [caller |-> p, ok |-> TRUE]
                        /\ rateLimit' = [rateLimit EXCEPT !.tokens = rateLimit.tokens - 1]
            /\ \A p \in Callers :
                  /\ (Leaves(p, "refill") /\ now <= rateLimit.refillAt) => rateLimit' = rateLimit
                  /\ Leaves(p, "test")
                        => IF rateLimit.tokens > 0
                           THEN call'.pc[p] = "dec"
                           ELSE call'.pc[p] = "unlock" /\ call'.last = [caller |-> p, ok |-> FALSE]
                  /\ Leaves(p, "dec") => rateLimit'.tokens = rateLimit.tokens - 1 ]_vars

\* without a credential: the sixty tokens are spent, the deadline passes, and the next
\* acquisition is granted out of a full limiter
C27_Witness ==
    /\ call.op = "acquire" /\ call.token = ""
    /\ now = 70
    /\ rateLimit = [tokens |-> 59, maxTokens |-> 60, refillAt |-> 130]
    /\ call.refilledEmpty
    /\ call.start = 60 /\ call.granted = 1
    /\ call.last.ok

(* C28: with several callers in acquire and no refill in between, the acquisitions        *)
(* granted never exceed the tokens there were at the start; at most one caller is between *)
(* Lock and Unlock, so the refill, the test and the decrement of one acquisition are not  *)
(* interleaved with those of another.                                                     *)
C28_NoOverGrant ==
    call.op = "acquire"
        => /\ call.granted <= call.start
           /\ call.granted + rateLimit.tokens = call.start
           /\ Cardinality({p \in Callers : call.pc[p] # "idle"}) <= 1
           /\ \A p \in Callers : call.pc[p] # "idle" => call.mutex = p

\* the last token has been granted to one caller and the other caller is refused
C28_Witness ==
    /\ call.op = "acquire"
    /\ rateLimit.tokens = 0
    /\ call.granted = 60 /\ call.start = 60
    /\ call.pc[2] = "unlock" /\ call.last = [caller |-> 2, ok |-> FALSE]
    /\ now = 0

----------------------------------------------------------------------------
(* The cache under concurrent callers (SharedSpec) *)

(* C29, as stated: on every path through get and getWithPagination the read lock taken at *)
(* entry is released exactly once, also when a live entry of the url holds a value of the *)
(* other kind: no caller calls RUnlock without holding the read lock, and a caller past   *)
(* the cache lookup holds none.                                                           *)
C29_ReadLockBalanced ==
    call.op = "client"
        => /\ ~call.fault
           /\ \A p \in Callers :
                 /\ call.rlocked[p] \in {0, 1}
                 /\ call.pc[p] \in {"idle", "request", "store"} => call.rlocked[p] = 0
           /\ call.readers = Cardinality({p \in Callers : call.rlocked[p] = 1})

(* C30, as stated: once clearCache has returned, the cache holds no response whose        *)
(* request was issued before the clear: a get in flight during the clear does not         *)
(* re-populate the cache with its response.                                               *)
C30_NoStaleAfterClear ==
    call.op = "client"
        => \A u \in DOMAIN cache : call.entryIssued[u] >= call.clears

----------------------------------------------------------------------------
(* Discovery *)

\* the links and the repositories of the listing page at url, as the remote holds them
LinksOf(url) ==
    IF url = ListURL THEN remote.links1 ELSE IF url = ListURL2 THEN remote.links2 ELSE <<>>
ReposOf(url) ==
    IF url = ListURL THEN remote.page1 ELSE IF url = ListURL2 THEN remote.page2 ELSE <<>>

\* the url of the first link of the page at url whose relation is next, "" if there is none
NextOf(url) ==
    LET Nexts == {k \in 1..Len(LinksOf(url)) : LinksOf(url)[k].rel = "next"} IN
    IF Nexts = {} THEN ""
    ELSE LinksOf(url)[CHOOSE k \in Nexts : \A j \in Nexts : k <= j].url

\* the repositories of the pages at urls, in that order
RECURSIVE PagesOf(_)
PagesOf(urls) == IF urls = <<>> THEN <<>> ELSE ReposOf(urls[1]) \o PagesOf(Tail(urls))

(* C31: fetchRepositories asks for the first listing page and then for the page named by  *)
(* the next link of the page before, and stops at a page without next link; what it       *)
(* returns then is the eligible repositories of all those pages in page order.  When a    *)
(* page fails it returns the error and no list.                                           *)
C31_AllPagesOrNone ==
    LET v == call.visited
        Wanted(r) == /\ HasPrefix(r.Name, "terraform-azure-")
                     /\ ~r.Private /\ ~r.Archived /\ r.Size > 0
    IN (call.op = "fetchRepositories" /\ Len(v) < MaxVisits) =>
          /\ v # <<>> => v[1] = ListURL
          /\ \A i \in 1..(Len(v) - 1) : v[i + 1] = NextOf(v[i])
          /\ call.pc = "loop" => call.url = (IF v = <<>> THEN ListURL ELSE NextOf(v[Len(v)]))
          /\ (call.pc = "returned" /\ call.err = NoError)
                => /\ v # <<>> /\ NextOf(v[Len(v)]) = ""
                   /\ call.repos = SelectSeq(PagesOf(v), Wanted)
          /\ (call.pc = "returned" /\ call.err # NoError)
                => /\ call.repos = <<>>
                   /\ v # <<>> /\ (call.sent[Len(v)] => call.status[Len(v)] # StatusOK
                                                        \/ v[Len(v)] = ListURL3)

\* a traversal of two pages whose first page names the next page in its second link
C31_Witness ==
    /\ call.op = "fetchRepositories" /\ call.pc = "returned" /\ call.err = NoError
    /\ call.visited = <<ListURL, ListURL2>>
    /\ remote.links1[1].rel # "next"
    /\ Len(call.repos) = 2

\* a traversal that fails at its second page
C31_WitnessFailure ==
    /\ call.op = "fetchRepositories" /\ call.pc = "returned" /\ call.err # NoError
    /\ Len(call.visited) = 2

(* C32: repository discovery terminates whatever the remote answers, also when the next   *)
(* link of a page names a page visited before in the same traversal.                      *)
C32_Terminates == (call.op = "fetchRepositories") => <>(call.pc = "returned")

\* the traversal is back at a page it has visited, and the answer is in the cache
C32_Revisit ==
    /\ call.op = "fetchRepositories" /\ call.pc = "loop"
    /\ call.url \in Range(call.visited)
    /\ CacheHit(cache, call.url, now, "paginated")

----------------------------------------------------------------------------
(* Archive ingestion *)

\* the files in the store that belong to the repository of the call or to its submodules
Mine == {f \in Range(db.files) : RelatedTo(f.ModuleID, call.repo.Name)}

\* the headers of the archive read so far by the loop of syncRepositoryFromArchive
HeadersRead == {call.entries[i] : i \in 1..(call.k - 1)}

\* file f is the content of a regular-file header among hs, under the name of the header
\* without its first segment
FromRegularHeader(f, hs) ==
    \E e \in hs :
        /\ e.Typeflag = TypeReg
        /\ e.Content = f.Content
        /\ \E i \in 1..Len(e.Name) :
              /\ SubSeq(e.Name, i, i) = "/"
              /\ \A j \in 1..(i - 1) : SubSeq(e.Name, j, j) # "/"
              /\ SubSeq(e.Name, i + 1, Len(e.Name)) = f.FilePath

\* no segment of the path is dir
Outside(path, dir) ==
    /\ path # dir
    /\ ~HasPrefix(path, dir \o "/")
    /\ ~HasSuffix(path, "/" \o dir)
    /\ ~Contains(path, "/" \o dir \o "/")

(* C33: every file persisted for a repository is the content of a regular-file header of  *)
(* its archive, stored under the name of the header without the top-level directory, and  *)
(* no segment of its path is .git, .github, node_modules or .terraform; a header that is   *)
(* not a regular file or has no path below the top-level directory leaves no file.         *)
C33_RegularFilesOnly ==
    call.op = "syncRepository"
        => /\ \A f \in Mine :
                 /\ f.FilePath # ""
                 /\ \A dir \in {".git", ".github", "node_modules", ".terraform"} :
                        Outside(f.FilePath, dir)
                 /\ FromRegularHeader(f, Range(Tarball(call.repo.Name, 1))
                                            \cup Range(Tarball(call.repo.Name, 2)))
           /\ call.pc \notin {"insert", "readme", "children"}
                 => \A f \in Mine : FromRegularHeader(f, HeadersRead)

\* the whole archive of the key vault repository has been read: a regular file without a
\* path below the top-level directory and one under modules/cache/.terraform were in it
C33_Witness ==
    /\ call.op = "syncRepository" /\ call.pc = "returned" /\ call.err = NoError
    /\ call.repo.Name = KvName
    /\ call.k = Len(call.entries) + 1
    /\ \E e \in HeadersRead : e.Typeflag = TypeReg /\ e.Name = "LICENSE"
    /\ \E e \in HeadersRead : e.Name = "cn-kv-1/modules/cache/.terraform/modules.json"
    /\ {f.FilePath : f \in Mine} = {"main.tf", "broken.tf"}

\* the names of the submodule Modules of the repository of the call that are in the store
SubmodulesInStore ==
    {n \in ModuleNames(db) : HasPrefix(n, call.repo.Name \o "//modules/")}

\* the <name> of the submodule Module called moduleName
SubmoduleKey(moduleName) ==
    SubSeq(moduleName, Len(call.repo.Name \o "//modules/") + 1, Len(moduleName))

\* path is modules/<name>/<rest>
IsUnder(path, name) ==
    /\ name # "" /\ ~Contains(name, "/")
    /\ HasPrefix(path, "modules/" \o name \o "/")
    /\ Len(path) > Len("modules/" \o name \o "/")

(* C34: a file is under a submodule Module exactly when its path is modules/<name>/<rest>, *)
(* and then under the Module of that <name>; every submodule Module in the store has such  *)
(* a file, and no submodule is created twice in one pass.  A file directly in modules/     *)
(* is under the root Module.                                                               *)
C34_OnlyModulesNameRest ==
    (call.op = "syncRepository" /\ call.pc \notin {"insert", "readme", "children"})
        => /\ \A f \in Mine :
                 /\ f.ModuleID # call.repo.Name
                        => IsUnder(f.FilePath, SubmoduleKey(f.ModuleID))
                 /\ f.ModuleID = call.repo.Name
                        => ~\E i \in 1..Len(f.FilePath) :
                               IsUnder(f.FilePath, SubSeq(f.FilePath, Len("modules/") + 1, i))
           /\ \A n \in SubmodulesInStore : \E f \in Mine : f.ModuleID = n
           /\ \A i, j \in 1..Len(call.submoduleOrder) :
                 i # j => call.submoduleOrder[i] # call.submoduleOrder[j]

\* modules/README.md has been read and a Module for README.md is in the store
C34_FileInModules ==
    /\ call.op = "syncRepository" /\ call.pc = "returned" /\ call.err = NoError
    /\ \E f \in Mine :
          /\ f.FilePath = "modules/README.md"
          /\ f.ModuleID = call.repo.Name \o "//modules/README.md"
    /\ call.repo.Name \o "//modules/README.md" \in ModuleNames(db)

\* the archive the remote serves for the repository of the call
ArchiveNow == Tarball(call.repo.Name, remote.archive[call.repo.Name].version)

(* C35: when syncRepository has returned without error and the Module is in the store,    *)
(* its has-examples flag is set exactly when a retained file of the archive has a path    *)
(* that begins with examples/, whatever the flag was before the call.                     *)
C35_ExamplesFlag ==
    (/\ call.op = "syncRepository" /\ call.pc = "returned" /\ call.err = NoError
     /\ call.repo.Name \in ModuleNames(db))
        => (GetModule(db, call.repo.Name).HasExamples
              <=> \E path \in RetainedPaths(ArchiveNow) : HasPrefix(path, "examples/"))

\* the repository had examples when it was synced before and has none now
C35_Witness ==
    /\ call.op = "syncRepository" /\ call.pc = "returned" /\ call.err = NoError
    /\ GetModule(call.start.db, call.repo.Name).HasExamples
    /\ call.repo.Name \in ModuleNames(db)
    /\ RetainedPaths(ArchiveNow) # {}
    /\ ~\E path \in RetainedPaths(ArchiveNow) : HasPrefix(path, "examples/")
    /\ ~GetModule(db, call.repo.Name).HasExamples

\* the repository has examples and its flag is set
C35_WitnessSet ==
    /\ call.op = "syncRepository" /\ call.pc = "returned" /\ call.err = NoError
    /\ "examples/basic/main.tf" \in RetainedPaths(ArchiveNow)
    /\ GetModule(db, call.repo.Name).HasExamples

----------------------------------------------------------------------------
(* Parsing of the files of a module *)

\* the configuration files of module id in the store, those that parse and those that do not
Parsed(id) ==
    {f \in Range(db.files) : f.ModuleID = id /\ HasSuffix(f.FileName, ".tf") /\ f.Content.parses}
Unparsed(id) ==
    {f \in Range(db.files) : f.ModuleID = id /\ HasSuffix(f.FileName, ".tf") /\ ~f.Content.parses}

\* the names of the blocks of a type in a set of files: the last label of each block
NamesIn(files, type) ==
    UNION {{f.Content.blocks[i].Labels[Len(f.Content.blocks[i].Labels)] :
               i \in {k \in 1..Len(f.Content.blocks) : f.Content.blocks[k].Type = type}} :
           f \in files}

(* C36: when parseAndIndexTerraformFiles has returned, the entities of the module are      *)
(* those of its configuration files that parse, whatever their place among the files; a    *)
(* file that does not parse has contributed nothing and the function has returned no       *)
(* error.                                                                                  *)
C36_ParseFailureSkipped ==
    (call.op = "parseAndIndexTerraformFiles" /\ call.pc = "returned")
        => /\ call.err = NoError
           /\ {row.Name : row \in Range(db.variables)} = NamesIn(Parsed(call.moduleID), "variable")
           /\ {row.Name : row \in Range(db.outputs)} = NamesIn(Parsed(call.moduleID), "output")
           /\ {row.ResourceName : row \in Range(db.resources)}
                 = NamesIn(Parsed(call.moduleID), "resource")
           /\ {row.DataName : row \in Range(db.dataSources)}
                 = NamesIn(Parsed(call.moduleID), "data")
           /\ \A row \in Range(db.variables) \cup Range(db.outputs) : row.Name # "lost"

\* a file that does not parse lies between two files that do
C36_Witness ==
    /\ call.op = "parseAndIndexTerraformFiles" /\ call.pc = "returned"
    /\ Len(db.files) = 3
    /\ db.files[2] \in Unparsed(call.moduleID)
    /\ db.files[1].FileName = "main.tf" /\ db.files[3].FileName = "outputs.tf"
    /\ {row.Name : row \in Range(db.variables)} = {"name"}
    /\ {row.Name : row \in Range(db.outputs)} = {"id"}

----------------------------------------------------------------------------
(* The sensitive attribute *)

\* the blocks of the body of the call that extractVariables, or extractOutputs, makes rows of
BlocksOfCall ==
    LET Is(b) == /\ b.Type = (IF call.op = "extractVariables" THEN "variable" ELSE "output")
                 /\ b.Labels # <<>>
    IN SelectSeq(call.body.blocks, Is)

\* text is true in any letter case
IsTrueAnyCase(text) ==
    /\ Len(text) = 4
    /\ SubSeq(text, 1, 1) \in {"t", "T"} /\ SubSeq(text, 2, 2) \in {"r", "R"}
    /\ SubSeq(text, 3, 3) \in {"u", "U"} /\ SubSeq(text, 4, 4) \in {"e", "E"}

(* C37: the rows of extractVariables and of extractOutputs are Sensitive exactly when the  *)
(* block has a sensitive attribute that is the literal true or whose source text is true   *)
(* in any letter case; without the attribute, or with sensitive = false, they are not.     *)
C37_SensitiveIffTrue ==
    (call.op \in {"extractVariables", "extractOutputs"} /\ call.pc = "returned")
        => /\ Len(call.rows) = Len(BlocksOfCall)
           /\ \A i \in 1..Len(call.rows) :
                 /\ call.rows[i].Sensitive
                       <=> /\ "sensitive" \in DOMAIN BlocksOfCall[i].Attributes
                           /\ IsTrueAnyCase(BlocksOfCall[i].Attributes["sensitive"])
                 /\ "sensitive" \notin DOMAIN BlocksOfCall[i].Attributes
                       => ~call.rows[i].Sensitive
                 /\ ("sensitive" \in DOMAIN BlocksOfCall[i].Attributes
                        /\ BlocksOfCall[i].Attributes["sensitive"] = "false")
                       => ~call.rows[i].Sensitive

\* outputs with sensitive = TRUE and with sensitive = "true"
C37_Witness ==
    /\ call.op = "extractOutputs" /\ call.pc = "returned"
    /\ Len(call.rows) = 2
    /\ BlocksOfCall[1].Attributes = ("sensitive" :> "TRUE") /\ call.rows[1].Sensitive
    /\ BlocksOfCall[2].Attributes = ("sensitive" :> "\"true\"") /\ ~call.rows[2].Sensitive

\* variables with sensitive = true and without the attribute
C37_WitnessVariables ==
    /\ call.op = "extractVariables" /\ call.pc = "returned"
    /\ Len(call.rows) = 2
    /\ BlocksOfCall[1].Attributes = ("sensitive" :> "true") /\ call.rows[1].Sensitive
    /\ BlocksOfCall[2].Attributes = <<>> /\ ~call.rows[2].Sensitive

----------------------------------------------------------------------------
(* Default values *)

\* x is nil, a string, a number or a boolean
IsScalar(x) ==
    \/ x.kind = "nil"
    \/ x.kind = "string" /\ x.v \in STRING
    \/ x.kind = "int64" /\ x.v \in Int
    \/ x.kind = "float64" /\ x.v.whole \in Int /\ x.v.tenths \in 1..9
    \/ x.kind = "bool" /\ x.v \in BOOLEAN

\* x is a scalar, or a sequence or a key-value map of native values
RECURSIVE IsNative(_)
IsNative(x) ==
    \/ IsScalar(x)
    \/ x.kind = "[]any" /\ \A i \in 1..Len(x.v) : IsNative(x.v[i])
    \/ x.kind = "map[string]any" /\ \A key \in DOMAIN x.v : key \in STRING /\ IsNative(x.v[key])

\* the default expression of the call
DefaultExpr == call.attributes["default"]

(* C38: getDefaultValue returns a native value for every default expression: the value of  *)
(* a literal, a sequence with one value for each element of a list, a key-value map for    *)
(* an object, and nil for a function call or a reference; the evaluation of the            *)
(* expression never ends in an error.                                                      *)
C38_DefaultsTotal ==
    (call.op = "getDefaultValue" /\ call.pc = "returned")
        => /\ call.evalErr = NoError
           /\ IsNative(call.value)
           /\ "default" \notin DOMAIN call.attributes => call.value.kind = "nil"
           /\ "default" \in DOMAIN call.attributes
                 => /\ DefaultExpr.expr \in {"FunctionCallExpr", "ScopeTraversalExpr"}
                          => call.value.kind = "nil"
                    /\ DefaultExpr.expr = "LiteralValueExpr"
                          => /\ IsScalar(call.value)
                             /\ call.value.kind = "nil" <=> DefaultExpr.val.null
                             /\ call.value.kind = "string" <=> DefaultExpr.val.ty = "string"
                             /\ call.value.kind = "string" => call.value.v = DefaultExpr.val.v.str
                             /\ call.value.kind = "bool" <=> DefaultExpr.val.ty = "bool"
                             /\ call.value.kind = "bool" => call.value.v = DefaultExpr.val.v.bool
                             /\ call.value.kind \in {"int64", "float64"}
                                   <=> DefaultExpr.val.ty = "number"
                             /\ call.value.kind = "int64" => call.value.v = DefaultExpr.val.v.whole
                    /\ DefaultExpr.expr = "TupleConsExpr"
                          => /\ call.value.kind = "[]any"
                             /\ Len(call.value.v) = Len(DefaultExpr.exprs)
                    /\ DefaultExpr.expr = "ObjectConsExpr"
                          => /\ call.value.kind = "map[string]any"
                             /\ DOMAIN call.value.v \subseteq
                                   {DefaultExpr.items[i].rootName : i \in 1..Len(DefaultExpr.items)}

\* a list of a number and a function call: the number and nil
C38_Witness ==
    /\ call.op = "getDefaultValue" /\ call.pc = "returned"
    /\ DOMAIN call.attributes = {"default"}
    /\ DefaultExpr.expr = "TupleConsExpr" /\ Len(DefaultExpr.exprs) = 2
    /\ DefaultExpr.exprs[2].expr = "FunctionCallExpr"
    /\ call.value.kind = "[]any"
    /\ call.value.v[1].kind = "int64" /\ call.value.v[1].v = 3
    /\ call.value.v[2].kind = "nil"

\* a default that is a function call
C38_WitnessCall ==
    /\ call.op = "getDefaultValue" /\ call.pc = "returned"
    /\ DOMAIN call.attributes = {"default"}
    /\ DefaultExpr.expr = "FunctionCallExpr"
    /\ call.value.kind = "nil"

----------------------------------------------------------------------------
(* Resource clusters *)

\* the set of the resource types of a module, and of a cluster
TypesOf(module) == {module.Resources[i] : i \in 1..Len(module.Resources)}
TypesIn(cluster) == {cluster[i] : i \in 1..Len(cluster)}

\* the clusters learned so far
Clusters == call.learner.resourceClusters

(* C39: the learner holds a cluster of the resource types of a learned module exactly when *)
(* the module has more than one resource type, and it holds one cluster for each set of    *)
(* resource types, whatever the order and the repetition of the types in the modules.      *)
C39_ClusterBySet ==
    call.op = "trainCategoryLearner"
        => /\ \A module \in call.learned :
                 Cardinality(TypesOf(module)) > 1
                     <=> \E key \in DOMAIN Clusters : TypesIn(Clusters[key]) = TypesOf(module)
           /\ \A key1, key2 \in DOMAIN Clusters :
                 TypesIn(Clusters[key1]) = TypesIn(Clusters[key2]) => key1 = key2

\* what the learner does hold: a cluster for each module with more than one resource,
\* under the types of its resources joined in the order of their declaration
C39_ClusterByDeclaration ==
    call.op = "trainCategoryLearner"
        => /\ DOMAIN Clusters = {Join(module.Resources, ",") :
                                    module \in {m \in call.learned : Len(m.Resources) > 1}}
           /\ \A module \in call.learned :
                 Len(module.Resources) > 1
                     => Clusters[Join(module.Resources, ",")] = module.Resources
====
